---- MODULE Spec2Model ----
(***************************************************************************)
(* A state machine of the differential fuzzing driver of                   *)
(* src/Fuzzer/FuzzerLoop.cpp: the initial-corpus replay, the main loop,    *)
(* the mutation rounds with their hash filter, RunOne / RunOneCallback /   *)
(* ExecuteCallback, the divergence fingerprint of DumpUnitIfDiff, and the  *)
(* handlers that end the process.                                          *)
(*                                                                         *)
(* The fuzzing thread is one sequential process whose position is pc.  A   *)
(* target callback runs between ExecuteCallbackBegin (RunningCB := true)   *)
(* and CallbackReturn; while it runs, the allocator hooks, the clock, the  *)
(* equivalence server and the signal handlers may act.  Everything the     *)
(* driver does between two callback invocations is one step.               *)
(*                                                                         *)
(* SHA-1 is taken to be collision free: a digest is modelled by the value  *)
(* it was computed from.                                                   *)
(***************************************************************************)
EXTENDS Integers, Sequences, FiniteSets, TLC

(***************************************************************************)
(* Bounds of the model.                                                    *)
(***************************************************************************)
\* The largest Options.MaxLen (MaxInputLen = MaxMutationLen) explored.
MaxLen == 2
\* TPC.UC->size, the number N of callbacks under differential test.
NumCallbacks == 2
\* Number of PC-table entries that belong to each callback's module.
PCsPerModule == 1
\* Bound on the number of RunOne calls explored in one behaviour.
MaxRunOneCalls == 3
\* Bound on the number of ExecuteCallback calls explored in one behaviour.
MaxExecutions == 5
\* Options.MaxNumberOfRuns.
MaxNumberOfRuns == 3
\* Options.MutateDepth.
MutateDepth == 2
\* Bound on the do-while retries counted by NumberOfDuplicate.
MaxDuplicates == 2
\* Bound on the allocator-hook invocations explored in one behaviour.
MaxHookCalls == 2
\* Options.UnitTimeoutSec; the clock readings range over 0..UnitTimeoutSec.
UnitTimeoutSec == 1

(***************************************************************************)
(* Values.                                                                 *)
(***************************************************************************)
ByteValues == {0}

\* Byte strings of length at most n.
UnitsUpTo(n) == UNION {[1..k -> ByteValues] : k \in 0..n}

\* Inputs within Options.MaxLen (initial corpus, reloads, valid mutants).
Units(opts) == UnitsUpTo(opts.MaxLen)

\* What MD.Mutate may leave behind: any unit within the cap, the empty
\* unit, or one oversized candidate.
Candidates(opts) == Units(opts) \cup {[i \in 1..(opts.MaxLen + 1) |-> 0]}

\* Return codes of a target callback.
ReturnCodes(cb) == 0..(cb + 1)

\* TPC.ModuleNum, N+1 entries: entry 0 is the leading slot of the PC table
\* (PC index 0 is never used), entry j+1 the PC count of callback j.
ModuleNum == [j \in 0..NumCallbacks |-> IF j = 0 THEN 1 ELSE PCsPerModule]

RECURSIVE SumModuleNum(_)
SumModuleNum(j) == IF j < 0 THEN 0 ELSE ModuleNum[j] + SumModuleNum(j - 1)

\* TPC.GetNumPCs(): the length of the concatenated PC table.
GetNumPCs == SumModuleNum(NumCallbacks)

\* The PC the instrumentation stores in entry i of the table once it is hit.
PCAddr(i) == 4096 + 257 * i

\* The PC-table entries callback j's module owns.
ModulePCs(j) == {i \in 0..(GetNumPCs - 1) :
                    /\ i >= SumModuleNum(j)
                    /\ i < SumModuleNum(j + 1)}

\* The entries a callback can hit: those of its module in differential
\* mode, any used entry for the single callback of the plain mode.
Region(differential, cb) ==
    IF differential /\ cb \in 0..(NumCallbacks - 1)
    THEN ModulePCs(cb)
    ELSE 1..(GetNumPCs - 1)

Features == 1..(GetNumPCs - 1)

\* TPC.GetTotalPCCoverage(): the non-zero entries of the PC table.
GetTotalPCCoverage(pcs) == Cardinality({i \in 1..(GetNumPCs - 1) : pcs[i] # 0})

(***************************************************************************)
(* uint_to_uint8 and the divergence fingerprint.                           *)
(***************************************************************************)
RECURSIVE ShiftRight8(_, _)
ShiftRight8(x, k) == IF k = 0 THEN x ELSE ShiftRight8(x \div 256, k - 1)

\* Faulty variant of uint_to_uint8: the bytes of each word are stored most
\* significant first.
uint_to_uint8BigEndian(source, size) ==
    [b \in 1..(8 * size) |->
        ShiftRight8(source[(b - 1) \div 8], 7 - ((b - 1) % 8)) % 256]

\* dest[i*8 + k] = (uint8_t)(source[i] >> 8k); dest is 1-based here.
uint_to_uint8(source, size) ==
    [b \in 1..(8 * size) |->
        ShiftRight8(source[(b - 1) \div 8], (b - 1) % 8) % 256]

\* Faulty variant of CoverageFrom: the region of every callback is copied,
\* whatever its return code.
RECURSIVE CoverageFromAll(_, _, _, _)
CoverageFromAll(j, index, Mid, vec) ==
    IF j = NumCallbacks THEN <<>>
    ELSE LET idx == index + 8 * ModuleNum[j]
         IN SubSeq(Mid, idx + 1, idx + 8 * ModuleNum[j + 1])
               \o CoverageFromAll(j + 1, idx, Mid, vec)

\* The loop of DumpUnitIfDiff that fills Coverage: index advances by
\* 8*ModuleNum[j] before callback j is looked at, and 8*ModuleNum[j+1]
\* bytes are copied from Mid+index when its return code is non-zero.
RECURSIVE CoverageFrom(_, _, _, _)
CoverageFrom(j, index, Mid, vec) ==
    IF j = NumCallbacks THEN <<>>
    ELSE LET idx == index + 8 * ModuleNum[j]
             part == IF vec[j] # 0
                     THEN SubSeq(Mid, idx + 1, idx + 8 * ModuleNum[j + 1])
                     ELSE <<>>
         IN part \o CoverageFrom(j + 1, idx, Mid, vec)

\* The offsets of Mid the memcpy calls of that loop read (0-based): for
\* each callback with a non-zero return code, 8*ModuleNum[j+1] bytes from
\* Mid+index.
RECURSIVE CoverageReads(_, _, _)
CoverageReads(j, index, vec) ==
    IF j = NumCallbacks THEN {}
    ELSE LET idx == index + 8 * ModuleNum[j]
             part == IF vec[j] # 0
                     THEN idx..(idx + 8 * ModuleNum[j + 1] - 1)
                     ELSE {}
         IN part \cup CoverageReads(j + 1, idx, vec)

\* ComputeSHA1 followed by Sha1ToString.
ComputeSHA1(bytes) == [sha1 |-> bytes]

\* The fingerprint DumpUnitIfDiff looks up in CoverageHash.
DivergenceFingerprint(pcs, vec) ==
    ComputeSHA1(CoverageFrom(0, 0, uint_to_uint8(pcs, GetNumPCs), vec))

\* Hash(U) of a unit, the key of hashMap and the suffix of artifact names.
Hash(U) == ComputeSHA1(U)

\* Faulty variant of HasZero: has_zero is taken to be true for every vector.
HasZeroAlways(vec) == vec = vec

HasZero(vec) == \E i \in 0..(NumCallbacks - 1) : vec[i] = 0
HasNonZero(vec) == \E i \in 0..(NumCallbacks - 1) : vec[i] # 0

(***************************************************************************)
(* Options (FuzzingOptions).  The exit codes are configured to values that *)
(* differ from 0 and 1, so that the code a handler uses can be told apart. *)
(***************************************************************************)
DefaultOptions ==
    [DifferentialMode |-> TRUE,  SaveArtifacts |-> TRUE,
     DetectLeaks |-> TRUE,       Shrink |-> FALSE,
     ReduceInputs |-> FALSE,     Canonical |-> "exact",
     ErrorExitCode |-> 3,        TimeoutExitCode |-> 77,
     RssLimitMb |-> 2,           ReportSlowUnits |-> 10,
     SMR |-> "none",             MaxLen |-> MaxLen - 1]

\* The configurations explored: differential with artifacts, plain with
\* input reduction and the equivalence check, differential without
\* artifacts, plain with leak detection.
OptionChoices ==
    {[DefaultOptions EXCEPT !.DetectLeaks = FALSE],
     [DefaultOptions EXCEPT !.DifferentialMode = FALSE, !.ReduceInputs = TRUE,
                            !.Shrink = TRUE, !.SMR = "client",
                            !.MaxLen = MaxLen, !.DetectLeaks = FALSE],
     [DefaultOptions EXCEPT !.SaveArtifacts = FALSE, !.Canonical = "sign",
                            !.DetectLeaks = FALSE],
     [DefaultOptions EXCEPT !.DifferentialMode = FALSE]}

(***************************************************************************)
(* State.                                                                  *)
(***************************************************************************)
VARIABLES
    pc,            \* position of the fuzzing thread
    ctx,           \* caller of the RunOne in progress: replay, reload, mutate
    stage,         \* what the ExecuteCallback in progress is for: dummy, run, leak
    Options,
    \* InputCorpus
    Inputs,                 \* sequence of InputInfo
    InputSizesPerFeature,   \* feature -> size of the smallest unit, 0 = unseen
    \* dedup index
    hashMap, CoverageHash,
    \* TracePC
    PCs, OutputDiffVec, OutputDiffSeen, TraceDiffSeen,
    \* counters of Fuzzer
    TotalNumberOfRuns, NumberOfNewUnitsAdded, NumberOfDiffUnitsAdded,
    NumberOfDuplicate, Duplicate, NumberofValidCases,
    NumberOfLeakDetectionAttempts, TimeOfLongestUnitInSeconds,
    \* Fuzzer members used by the harness
    CB, UnitHadOutputDiff, RunningCB, CurrentUnitData, CurrentUnitSize,
    HasMoreMallocsThanFrees,
    \* AllocTracer
    Mallocs, Frees,
    \* MallocFreeTracer::Stop in progress: the operands of Mallocs > Frees
    \* loaded so far (-1: not yet loaded), its local Result, and the answers
    \* to "more mallocs than frees?" the counters gave since Stop was called
    StopMallocs, StopFrees, Result, StopSeen,
    \* locals of the RunOne in progress
    Data, idx, features, feature_vec, CoverageBefore, II,
    \* locals of the MutateAndTestOne in progress
    Size, PreviousUnit, MutIter,
    \* the heap copy handed to the running callback
    DataCopy,
    \* files and process exit
    Artifacts, LogFile, OutputCorpusFiles, ExitCode, ExitReason,
    \* history: the fingerprint of every diff_ artifact written, and the
    \* number of RunOne calls
    DiffWrites, RunOneCalls,
    \* the allocator hooks are installed; the number of ExecuteCallback calls
    \* and of allocator-hook invocations
    HooksInstalled, Executions, HookCalls

vars == <<pc, ctx, stage, Options, Inputs, InputSizesPerFeature, hashMap,
          CoverageHash, PCs, OutputDiffVec, OutputDiffSeen, TraceDiffSeen,
          TotalNumberOfRuns, NumberOfNewUnitsAdded, NumberOfDiffUnitsAdded,
          NumberOfDuplicate, Duplicate, NumberofValidCases,
          NumberOfLeakDetectionAttempts, TimeOfLongestUnitInSeconds,
          CB, UnitHadOutputDiff, RunningCB, CurrentUnitData, CurrentUnitSize,
          HasMoreMallocsThanFrees, Mallocs, Frees,
          StopMallocs, StopFrees, Result, StopSeen,
          Data, idx, features, feature_vec, CoverageBefore, II,
          Size, PreviousUnit, MutIter, DataCopy,
          Artifacts, LogFile, OutputCorpusFiles, ExitCode, ExitReason,
          DiffWrites, RunOneCalls,
          HooksInstalled, Executions, HookCalls>>

\* The state as one record: the handlers below are functions on it.
Cur ==
    [pc |-> pc, ctx |-> ctx, stage |-> stage, Options |-> Options,
     Inputs |-> Inputs, InputSizesPerFeature |-> InputSizesPerFeature,
     hashMap |-> hashMap, CoverageHash |-> CoverageHash,
     PCs |-> PCs, OutputDiffVec |-> OutputDiffVec,
     OutputDiffSeen |-> OutputDiffSeen, TraceDiffSeen |-> TraceDiffSeen,
     TotalNumberOfRuns |-> TotalNumberOfRuns,
     NumberOfNewUnitsAdded |-> NumberOfNewUnitsAdded,
     NumberOfDiffUnitsAdded |-> NumberOfDiffUnitsAdded,
     NumberOfDuplicate |-> NumberOfDuplicate, Duplicate |-> Duplicate,
     NumberofValidCases |-> NumberofValidCases,
     NumberOfLeakDetectionAttempts |-> NumberOfLeakDetectionAttempts,
     TimeOfLongestUnitInSeconds |-> TimeOfLongestUnitInSeconds,
     CB |-> CB, UnitHadOutputDiff |-> UnitHadOutputDiff,
     RunningCB |-> RunningCB, CurrentUnitData |-> CurrentUnitData,
     CurrentUnitSize |-> CurrentUnitSize,
     HasMoreMallocsThanFrees |-> HasMoreMallocsThanFrees,
     Mallocs |-> Mallocs, Frees |-> Frees,
     StopMallocs |-> StopMallocs, StopFrees |-> StopFrees,
     Result |-> Result, StopSeen |-> StopSeen,
     Data |-> Data, idx |-> idx, features |-> features,
     feature_vec |-> feature_vec, CoverageBefore |-> CoverageBefore,
     II |-> II, Size |-> Size, PreviousUnit |-> PreviousUnit,
     MutIter |-> MutIter, DataCopy |-> DataCopy,
     Artifacts |-> Artifacts, LogFile |-> LogFile,
     OutputCorpusFiles |-> OutputCorpusFiles,
     ExitCode |-> ExitCode, ExitReason |-> ExitReason,
     DiffWrites |-> DiffWrites, RunOneCalls |-> RunOneCalls,
     HooksInstalled |-> HooksInstalled, Executions |-> Executions,
     HookCalls |-> HookCalls]

\* The next state is the record s.
Load(s) ==
    /\ pc' = s.pc /\ ctx' = s.ctx /\ stage' = s.stage
    /\ Options' = s.Options
    /\ Inputs' = s.Inputs
    /\ InputSizesPerFeature' = s.InputSizesPerFeature
    /\ hashMap' = s.hashMap /\ CoverageHash' = s.CoverageHash
    /\ PCs' = s.PCs /\ OutputDiffVec' = s.OutputDiffVec
    /\ OutputDiffSeen' = s.OutputDiffSeen
    /\ TraceDiffSeen' = s.TraceDiffSeen
    /\ TotalNumberOfRuns' = s.TotalNumberOfRuns
    /\ NumberOfNewUnitsAdded' = s.NumberOfNewUnitsAdded
    /\ NumberOfDiffUnitsAdded' = s.NumberOfDiffUnitsAdded
    /\ NumberOfDuplicate' = s.NumberOfDuplicate
    /\ Duplicate' = s.Duplicate
    /\ NumberofValidCases' = s.NumberofValidCases
    /\ NumberOfLeakDetectionAttempts' = s.NumberOfLeakDetectionAttempts
    /\ TimeOfLongestUnitInSeconds' = s.TimeOfLongestUnitInSeconds
    /\ CB' = s.CB /\ UnitHadOutputDiff' = s.UnitHadOutputDiff
    /\ RunningCB' = s.RunningCB
    /\ CurrentUnitData' = s.CurrentUnitData
    /\ CurrentUnitSize' = s.CurrentUnitSize
    /\ HasMoreMallocsThanFrees' = s.HasMoreMallocsThanFrees
    /\ Mallocs' = s.Mallocs /\ Frees' = s.Frees
    /\ StopMallocs' = s.StopMallocs /\ StopFrees' = s.StopFrees
    /\ Result' = s.Result /\ StopSeen' = s.StopSeen
    /\ Data' = s.Data /\ idx' = s.idx /\ features' = s.features
    /\ feature_vec' = s.feature_vec
    /\ CoverageBefore' = s.CoverageBefore /\ II' = s.II
    /\ Size' = s.Size /\ PreviousUnit' = s.PreviousUnit
    /\ MutIter' = s.MutIter /\ DataCopy' = s.DataCopy
    /\ Artifacts' = s.Artifacts /\ LogFile' = s.LogFile
    /\ OutputCorpusFiles' = s.OutputCorpusFiles
    /\ ExitCode' = s.ExitCode /\ ExitReason' = s.ExitReason
    /\ DiffWrites' = s.DiffWrites /\ RunOneCalls' = s.RunOneCalls
    /\ HooksInstalled' = s.HooksInstalled /\ Executions' = s.Executions
    /\ HookCalls' = s.HookCalls

\* The state after Fuzzer::Fuzzer under the options opts: maps reset,
\* counters zero, CurrentUnitData allocated with MaxInputLen bytes,
\* CurrentUnitSize = 0, the allocator hooks installed if DetectLeaks.
Fresh(opts) ==
    [pc |-> "Start",
     ctx |-> "none",
     stage |-> "none",
     Options |-> opts,
     Inputs |-> <<>>,
     InputSizesPerFeature |-> [f \in Features |-> 0],
     hashMap |-> {},
     CoverageHash |-> {},
     PCs |-> [i \in 0..(GetNumPCs - 1) |-> 0],
     OutputDiffVec |-> [i \in 0..(NumCallbacks - 1) |-> 0],
     OutputDiffSeen |-> {},
     TraceDiffSeen |-> {},
     TotalNumberOfRuns |-> 0,
     NumberOfNewUnitsAdded |-> 0,
     NumberOfDiffUnitsAdded |-> 0,
     NumberOfDuplicate |-> 0,
     Duplicate |-> 0,
     NumberofValidCases |-> 0,
     NumberOfLeakDetectionAttempts |-> 0,
     TimeOfLongestUnitInSeconds |-> 0,
     CB |-> 0,
     UnitHadOutputDiff |-> FALSE,
     RunningCB |-> FALSE,
     CurrentUnitData |-> [i \in 1..opts.MaxLen |-> 0],
     CurrentUnitSize |-> 0,
     HasMoreMallocsThanFrees |-> FALSE,
     Mallocs |-> 0,
     Frees |-> 0,
     StopMallocs |-> -1,
     StopFrees |-> -1,
     Result |-> FALSE,
     StopSeen |-> {},
     Data |-> <<>>,
     idx |-> 0,
     features |-> 0,
     feature_vec |-> <<>>,
     CoverageBefore |-> 0,
     II |-> 0,
     Size |-> 0,
     PreviousUnit |-> <<>>,
     MutIter |-> 0,
     DataCopy |-> <<>>,
     Artifacts |-> <<>>,
     LogFile |-> <<>>,
     OutputCorpusFiles |-> {},
     ExitCode |-> -1,
     ExitReason |-> "none",
     DiffWrites |-> <<>>,
     RunOneCalls |-> 0,
     HooksInstalled |-> opts.DetectLeaks,
     Executions |-> 0,
     HookCalls |-> 0]

Init ==
    \E opts \in OptionChoices :
        LET s == Fresh(opts)
        IN /\ pc = s.pc
           /\ ctx = s.ctx
           /\ stage = s.stage
           /\ Options = s.Options
           /\ Inputs = s.Inputs
           /\ InputSizesPerFeature = s.InputSizesPerFeature
           /\ hashMap = s.hashMap
           /\ CoverageHash = s.CoverageHash
           /\ PCs = s.PCs
           /\ OutputDiffVec = s.OutputDiffVec
           /\ OutputDiffSeen = s.OutputDiffSeen
           /\ TraceDiffSeen = s.TraceDiffSeen
           /\ TotalNumberOfRuns = s.TotalNumberOfRuns
           /\ NumberOfNewUnitsAdded = s.NumberOfNewUnitsAdded
           /\ NumberOfDiffUnitsAdded = s.NumberOfDiffUnitsAdded
           /\ NumberOfDuplicate = s.NumberOfDuplicate
           /\ Duplicate = s.Duplicate
           /\ NumberofValidCases = s.NumberofValidCases
           /\ NumberOfLeakDetectionAttempts = s.NumberOfLeakDetectionAttempts
           /\ TimeOfLongestUnitInSeconds = s.TimeOfLongestUnitInSeconds
           /\ CB = s.CB
           /\ UnitHadOutputDiff = s.UnitHadOutputDiff
           /\ RunningCB = s.RunningCB
           /\ CurrentUnitData = s.CurrentUnitData
           /\ CurrentUnitSize = s.CurrentUnitSize
           /\ HasMoreMallocsThanFrees = s.HasMoreMallocsThanFrees
           /\ Mallocs = s.Mallocs
           /\ Frees = s.Frees
           /\ StopMallocs = s.StopMallocs
           /\ StopFrees = s.StopFrees
           /\ Result = s.Result
           /\ StopSeen = s.StopSeen
           /\ Data = s.Data
           /\ idx = s.idx
           /\ features = s.features
           /\ feature_vec = s.feature_vec
           /\ CoverageBefore = s.CoverageBefore
           /\ II = s.II
           /\ Size = s.Size
           /\ PreviousUnit = s.PreviousUnit
           /\ MutIter = s.MutIter
           /\ DataCopy = s.DataCopy
           /\ Artifacts = s.Artifacts
           /\ LogFile = s.LogFile
           /\ OutputCorpusFiles = s.OutputCorpusFiles
           /\ ExitCode = s.ExitCode
           /\ ExitReason = s.ExitReason
           /\ DiffWrites = s.DiffWrites
           /\ RunOneCalls = s.RunOneCalls
           /\ HooksInstalled = s.HooksInstalled
           /\ Executions = s.Executions
           /\ HookCalls = s.HookCalls

(***************************************************************************)
(* Process exit and artifacts.                                             *)
(***************************************************************************)
\* exit code of a failed assert (abort).
AbortExitCode == 134

\* _Exit(code) / exit(code): the process image is gone; what stays are the
\* files it wrote and its exit code.
ExitProcess(s, code, reason) ==
    [Fresh(s.Options) EXCEPT !.pc = "Exited", !.ExitCode = code,
                             !.ExitReason = reason,
                             !.Artifacts = s.Artifacts,
                             !.LogFile = s.LogFile,
                             !.OutputCorpusFiles = s.OutputCorpusFiles,
                             !.DiffWrites = s.DiffWrites]

\* An artifact name: the prefix kind, and the text that follows it inside
\* the prefix (the return vector of a diff_ artifact, the digest in front of
\* _BeforeMutationWas_).
ArtifactPrefix(kind, tag) == [kind |-> kind, tag |-> tag]

WriteUnitToFileWithPrefix(s, U, Prefix) ==
    IF ~s.Options.SaveArtifacts THEN s
    ELSE [s EXCEPT !.Artifacts =
              Append(@, [Prefix |-> Prefix, Hash |-> Hash(U), U |-> U])]

DumpCurrentUnit(s, kind) ==
    IF Len(s.CurrentUnitData) = 0 THEN s     \* CurrentUnitData was never allocated
    ELSE WriteUnitToFileWithPrefix(
             s, SubSeq(s.CurrentUnitData, 1, s.CurrentUnitSize),
             ArtifactPrefix(kind, <<>>))

\* SS.str(): the return codes, each followed by "_".
OutputDiffString(vec) == [i \in 1..NumCallbacks |-> vec[i - 1]]

\* Faulty variant of CoverageHashCount: the fingerprint is never found.
CoverageHashCountNever(s, tmp) == tmp \in {}

\* CoverageHash.count(tmp) > 0
CoverageHashCount(s, tmp) == tmp \in s.CoverageHash

\* Faulty variant of DumpUnitIfDiff: UnitHadOutputDiff is not set.
DumpUnitIfDiffUnmarked(s, U) ==
    IF HasZero(s.OutputDiffVec) /\ HasNonZero(s.OutputDiffVec)
    THEN LET tmp == DivergenceFingerprint(s.PCs, s.OutputDiffVec)
         IN IF CoverageHashCount(s, tmp)
            THEN [s EXCEPT !.Duplicate = @ + 1]
            ELSE LET s1 == [s EXCEPT !.CoverageHash = @ \cup {tmp},
                                     !.NumberOfDiffUnitsAdded = @ + 1]
                     s2 == WriteUnitToFileWithPrefix(
                               s1, U,
                               ArtifactPrefix("diff_",
                                              OutputDiffString(s.OutputDiffVec)))
                 IN [s2 EXCEPT !.DiffWrites =
                         IF s.Options.SaveArtifacts THEN Append(@, tmp) ELSE @]
    ELSE s

DumpUnitIfDiff(s, U) ==
    IF HasZero(s.OutputDiffVec) /\ HasNonZero(s.OutputDiffVec)
    THEN LET tmp == DivergenceFingerprint(s.PCs, s.OutputDiffVec)
         IN IF CoverageHashCount(s, tmp)
            THEN [s EXCEPT !.Duplicate = @ + 1]
            ELSE LET s1 == [s EXCEPT !.CoverageHash = @ \cup {tmp},
                                     !.UnitHadOutputDiff = TRUE,
                                     !.NumberOfDiffUnitsAdded = @ + 1]
                     s2 == WriteUnitToFileWithPrefix(
                               s1, U,
                               ArtifactPrefix("diff_",
                                              OutputDiffString(s.OutputDiffVec)))
                 IN [s2 EXCEPT !.DiffWrites =
                         IF s.Options.SaveArtifacts THEN Append(@, tmp) ELSE @]
    ELSE s

(***************************************************************************)
(* InputCorpus (FuzzerCorpus.h), as the specification describes it.        *)
(***************************************************************************)
\* add_feature: an unseen feature is recorded with the size; a seen one is
\* updated when shrinking is on and the size is strictly smaller.
AddFeature(sizes, Feature, size, Shrink) ==
    IF sizes[Feature] = 0 \/ (Shrink /\ size < sizes[Feature])
    THEN [sizes EXCEPT ![Feature] = size]
    ELSE sizes

\* TPC.CollectFeatures with the lambda of RunOneCallback: AddFeature on
\* every feature of the execution, in ascending order.
RECURSIVE CollectFeatures(_, _, _, _, _)
CollectFeatures(f, feats, sizes, size, Shrink) ==
    IF f > GetNumPCs - 1 THEN sizes
    ELSE CollectFeatures(f + 1, feats,
                         IF f \in feats
                         THEN AddFeature(sizes, f, size, Shrink)
                         ELSE sizes,
                         size, Shrink)

\* Corpus.NumFeatureUpdates() after minus before.
NumFeatureUpdatesBetween(before, after) ==
    Cardinality({f \in Features : before[f] # after[f]})

\* add: a new entry; the smallest-size map covers its feature set.
AddToCorpus(s, U, NumFeatures, MayDeleteFile, FeatureSet) ==
    [s EXCEPT
       !.Inputs = Append(@, [U |-> U, NumFeatures |-> NumFeatures,
                             MayDeleteFile |-> MayDeleteFile,
                             FeatureSet |-> FeatureSet,
                             NumExecutedMutations |-> 0,
                             NumSuccessfullMutations |-> 0]),
       !.InputSizesPerFeature =
           [f \in Features |->
               IF f \in FeatureSet /\ (@[f] = 0 \/ Len(U) < @[f])
               THEN Len(U) ELSE @[f]]]

\* try_replace: the unit is smaller than the entry and covers every
\* feature of the entry's feature set.
CanReplace(s, ii, U, FeatureSet) ==
    /\ Len(U) < Len(s.Inputs[ii].U)
    /\ s.Inputs[ii].FeatureSet \subseteq FeatureSet

TryToReplace(s, ii, U) == [s EXCEPT !.Inputs[ii].U = U]

\* Corpus.HasUnit(U).
HasUnit(s, U) == \E i \in 1..Len(s.Inputs) : s.Inputs[i].U = U

(***************************************************************************)
(* TracePC novelty tests (FuzzerTracePC), as the specification describes   *)
(* them.                                                                   *)
(***************************************************************************)
\* The canonical form of a return vector: the vector itself, or the pattern
\* of its zero and non-zero entries.
Canonical(mode, vec) ==
    IF mode = "exact" THEN vec
    ELSE [i \in 0..(NumCallbacks - 1) |-> IF vec[i] = 0 THEN 0 ELSE 1]

\* new_output_diff_change: true when the canonical vector was not seen.
NewOutputDiff_change(s) ==
    Canonical(s.Options.Canonical, s.OutputDiffVec) \notin s.OutputDiffSeen

\* new_trace_diff: true when the pattern of callbacks with new features is new.
NewTraceDiff(s) == s.feature_vec \notin s.TraceDiffSeen

\* reset_coverage clears the run-level accumulator; the PC table, which
\* total_pc_coverage counts since process start, is kept.
ResetCoverage(s) == s

(***************************************************************************)
(* The execution harness.                                                  *)
(***************************************************************************)
\* const size_t Limit = 64 of LooseMemeq.
Limit == 64

\* !memcmp(A + from, B + from, n)
Memeq(A, B, from, n) == \A i \in (from + 1)..(from + n) : A[i] = B[i]

LooseMemeq(A, B, size) ==
    IF size <= Limit THEN Memeq(A, B, 0, size)
    ELSE /\ Memeq(A, B, 0, Limit \div 2)
         /\ Memeq(A, B, size - Limit \div 2, Limit \div 2)

\* Faulty variant of CrashOnOverwrittenData: it returns to its caller.
CrashOnOverwrittenDataReturns(s) == s

CrashOnOverwrittenData(s) ==
    ExitProcess(DumpCurrentUnit(s, "crash-"),
                s.Options.ErrorExitCode, "overwrite")

\* memcpy(buf, U, Len(U)) into the MaxInputLen bytes of CurrentUnitData.
WriteBuf(buf, U) ==
    [i \in 1..Len(buf) |-> IF i <= Len(U) THEN U[i] ELSE buf[i]]

\* Faulty variant of ExecuteCallbackEnter: the input is not copied into
\* CurrentUnitData.
ExecuteCallbackEnterNoMirror(s) ==
    [s EXCEPT !.DataCopy = s.Data,
              !.CurrentUnitSize = Len(s.Data),
              !.Mallocs = 0, !.Frees = 0,
              !.RunningCB = TRUE,
              !.Executions = @ + 1,
              !.pc = "CB"]

\* ExecuteCallback up to the call of CB: the heap copy, the mirror in
\* CurrentUnitData (skipped when Data is CurrentUnitData itself, as in a
\* mutation round), AllocTracer.Start, RunningCB = true.
ExecuteCallbackEnter(s) ==
    [s EXCEPT !.DataCopy = s.Data,
              !.CurrentUnitData =
                  IF s.ctx = "mutate" THEN @ ELSE WriteBuf(@, s.Data),
              !.CurrentUnitSize = Len(s.Data),
              !.Mallocs = 0, !.Frees = 0,
              !.RunningCB = TRUE,
              !.Executions = @ + 1,
              !.pc = "CB"]

\* ExecuteCallback from the return of CB: hits are the PC-table entries
\* the callback executed, dc is what it left in its heap copy.
ExecuteCallbackLeave(s, Res, hits, dc) ==
    LET s1 == [s EXCEPT !.PCs = [i \in 0..(GetNumPCs - 1) |->
                                    IF i \in hits THEN PCAddr(i) ELSE @[i]],
                        !.RunningCB = FALSE,
                        !.DataCopy = dc]
    IN IF ~s.Options.DifferentialMode /\ Res # 0
       THEN ExitProcess(s1, AbortExitCode, "assert")
       ELSE LET s2 == [s1 EXCEPT
                         !.HasMoreMallocsThanFrees = s1.Mallocs > s1.Frees,
                         !.Mallocs = 0, !.Frees = 0]
            IN IF ~LooseMemeq(dc, s.Data, Len(s.Data))
               THEN CrashOnOverwrittenData(s2)
               ELSE [s2 EXCEPT !.CurrentUnitSize = 0]

PrintPulseAndReportSlowInput(s, U, TimeOfUnit) ==
    IF /\ 10 * TimeOfUnit > 11 * s.TimeOfLongestUnitInSeconds
       /\ TimeOfUnit >= s.Options.ReportSlowUnits
    THEN WriteUnitToFileWithPrefix(
             [s EXCEPT !.TimeOfLongestUnitInSeconds = TimeOfUnit],
             U, ArtifactPrefix("slow-unit-", <<>>))
    ELSE s

(***************************************************************************)
(* The driver: what follows a RunOne in each of its callers.               *)
(***************************************************************************)
\* The locals of a finished RunOne go out of scope.
EndRun(s) ==
    [s EXCEPT !.Data = <<>>, !.idx = 0, !.features = 0,
              !.feature_vec = <<>>, !.CoverageBefore = 0,
              !.stage = "none", !.ctx = "none"]

\* Faulty variant of ShuffleAndMinimizeEnd: Corpus.empty() is not tested.
ShuffleAndMinimizeEndUnchecked(s) ==
    [EndRun(s) EXCEPT !.pc = "Loop", !.II = 0]

\* The end of ShuffleAndMinimize, after the loop over the initial corpus.
ShuffleAndMinimizeEnd(s) ==
    IF Len(s.Inputs) = 0
    THEN ExitProcess(EndRun(s), 1, "empty-corpus")
    ELSE [EndRun(s) EXCEPT !.pc = "Loop", !.II = 0]

\* i++ of the for loop of MutateAndTestOne and its two exit tests.
ForNextIteration(s) ==
    IF s.MutIter + 1 < MutateDepth /\ s.TotalNumberOfRuns < MaxNumberOfRuns
    THEN [EndRun(s) EXCEPT !.MutIter = @ + 1, !.pc = "MutLoop"]
    ELSE [EndRun(s) EXCEPT !.MutIter = 0, !.pc = "Loop", !.II = 0,
                           !.Size = 0, !.PreviousUnit = <<>>]

\* The return of TryDetectingAMemoryLeak to its caller.
AfterLeakProbe(s) ==
    IF s.ctx = "replay"
    THEN [EndRun(s) EXCEPT !.pc = "Replay"]
    ELSE ForNextIteration(s)

\* TryDetectingAMemoryLeak up to its ExecuteCallback.
TryDetectingAMemoryLeak(s) ==
    IF ~s.HasMoreMallocsThanFrees THEN AfterLeakProbe(s)
    ELSE IF ~s.Options.DetectLeaks THEN AfterLeakProbe(s)
    ELSE [s EXCEPT !.stage = "leak", !.pc = "Exec"]

\* NumberOfLeakDetectionAttempts++ > 1000
LeakAttemptsLimit == 1000

\* TryDetectingAMemoryLeak after its ExecuteCallback; leak is the answer of
\* __lsan_do_recoverable_leak_check.
TryDetectingAMemoryLeakRest(s, leak) ==
    IF ~s.HasMoreMallocsThanFrees THEN AfterLeakProbe(s)
    ELSE LET s1 == [s EXCEPT !.NumberOfLeakDetectionAttempts = @ + 1]
         IN IF s.NumberOfLeakDetectionAttempts > LeakAttemptsLimit
            THEN AfterLeakProbe([s1 EXCEPT !.Options.DetectLeaks = FALSE])
            ELSE IF leak
            THEN ExitProcess(
                     DumpCurrentUnit(
                         [s1 EXCEPT !.CurrentUnitSize = Len(s.Data)], "leak-"),
                     s.Options.ErrorExitCode, "leak")
            ELSE AfterLeakProbe(s1)

\* Faulty variant of ReportNewCoverage: NumberOfNewUnitsAdded is decremented.
ReportNewCoverageDecrements(s, U) ==
    [s EXCEPT !.Inputs[s.II].NumSuccessfullMutations = @ + 1,
              !.OutputCorpusFiles = @ \cup {U},
              !.NumberOfNewUnitsAdded = @ - 1]

ReportNewCoverage(s, U) ==
    [s EXCEPT !.Inputs[s.II].NumSuccessfullMutations = @ + 1,
              !.OutputCorpusFiles = @ \cup {U},
              !.NumberOfNewUnitsAdded = @ + 1]

\* The statements that follow the call of RunOne, whose result is ret.
AfterRunOne(s, ret) ==
    CASE s.ctx = "replay" ->
           LET s1 == IF ret THEN [s EXCEPT !.NumberOfNewUnitsAdded = @ + 1]
                     ELSE s
           IN IF s1.TotalNumberOfRuns >= MaxNumberOfRuns
              THEN ShuffleAndMinimizeEnd(s1)
              ELSE TryDetectingAMemoryLeak(s1)
      [] s.ctx = "reload" -> [EndRun(s) EXCEPT !.pc = "Reload"]
      [] OTHER ->
           LET s1 == IF ret THEN ReportNewCoverage(s, s.Data) ELSE s
               s2 == IF ret /\ s1.UnitHadOutputDiff
                     THEN WriteUnitToFileWithPrefix(
                              s1, s1.PreviousUnit,
                              ArtifactPrefix("_BeforeMutationWas_", s1.Data))
                     ELSE s1
           IN TryDetectingAMemoryLeak(s2)

(***************************************************************************)
(* RunOne and RunOneCallback.                                              *)
(***************************************************************************)
\* (int)TotalNumberOfRuns % 20 == 0
LogInterval == 20

\* MayDeleteFile is true only in the call of MutateAndTestOne.
MayDeleteFile(s) == s.ctx = "mutate"

\* Faulty variant of OnNewDiff: DumpUnitIfDiff is called for every run,
\* whether the return vector is new or not.
OnNewDiffUngated(s, new_diff, NumCoverage) ==
    LET d == DumpUnitIfDiff(s, s.Data)
    IN IF d.UnitHadOutputDiff
       THEN AddToCorpus(d, s.Data, NumCoverage, MayDeleteFile(s), {})
       ELSE d

\* if (new_diff) { DumpUnitIfDiff; if (UnitHadOutputDiff) AddToCorpus }
OnNewDiff(s, new_diff, NumCoverage) ==
    IF new_diff
    THEN LET d == DumpUnitIfDiff(s, s.Data)
         IN IF d.UnitHadOutputDiff
            THEN AddToCorpus(d, s.Data, NumCoverage, MayDeleteFile(s), {})
            ELSE d
    ELSE s

\* Faulty variant of RunOneFinish: the result is features > 0 alone.
RunOneFinishFeaturesOnly(s) ==
    LET U == s.Data
        NumCoverage == GetTotalPCCoverage(s.PCs) - s.CoverageBefore
        new_diff == NewOutputDiff_change(s)
        s1 == [s EXCEPT !.OutputDiffSeen =
                   @ \cup {Canonical(s.Options.Canonical, s.OutputDiffVec)}]
        s2 == IF NewTraceDiff(s1)
              THEN [s1 EXCEPT !.TraceDiffSeen = @ \cup {s1.feature_vec},
                              !.NumberofValidCases = @ + 1]
              ELSE s1
        s3 == OnNewDiff(s2, new_diff, NumCoverage)
        s4 == [s3 EXCEPT !.TotalNumberOfRuns = @ + 1]
        s5 == IF s4.TotalNumberOfRuns % LogInterval = 0
              THEN [s4 EXCEPT !.LogFile =
                       Append(@, <<s4.TotalNumberOfRuns, s4.Duplicate,
                                   s4.NumberOfDiffUnitsAdded,
                                   s4.NumberofValidCases>>)]
              ELSE s4
    IN AfterRunOne(s5, s.features > 0)

\* RunOne in differential mode, after the loop over the callbacks.
RunOneFinish(s) ==
    LET U == s.Data
        NumCoverage == GetTotalPCCoverage(s.PCs) - s.CoverageBefore
        new_diff == NewOutputDiff_change(s)
        s1 == [s EXCEPT !.OutputDiffSeen =
                   @ \cup {Canonical(s.Options.Canonical, s.OutputDiffVec)}]
        s2 == IF NewTraceDiff(s1)
              THEN [s1 EXCEPT !.TraceDiffSeen = @ \cup {s1.feature_vec},
                              !.NumberofValidCases = @ + 1]
              ELSE s1
        s3 == OnNewDiff(s2, new_diff, NumCoverage)
        s4 == [s3 EXCEPT !.TotalNumberOfRuns = @ + 1]
        s5 == IF s4.TotalNumberOfRuns % LogInterval = 0
              THEN [s4 EXCEPT !.LogFile =
                       Append(@, <<s4.TotalNumberOfRuns, s4.Duplicate,
                                   s4.NumberOfDiffUnitsAdded,
                                   s4.NumberofValidCases>>)]
              ELSE s4
    IN AfterRunOne(s5, s.features > 0 \/ new_diff)

\* features += cb_ret; feature_vec.push_back(cb_ret); ++i
RecordCallback(s, cb_ret) ==
    [s EXCEPT !.features = @ + (IF cb_ret THEN 1 ELSE 0),
              !.feature_vec = Append(@, IF cb_ret THEN 1 ELSE 0),
              !.idx = @ + 1]

\* The for loop of RunOne from callback s.idx on, up to the next
\* ExecuteCallback: RunOneCallback returns false at once on an empty input.
RECURSIVE RunOneLoop(_)
RunOneLoop(s) ==
    IF s.idx < NumCallbacks
    THEN LET s1 == [s EXCEPT !.CB = s.idx]
         IN IF Len(s.Data) = 0
            THEN RunOneLoop(RecordCallback(s1, FALSE))
            ELSE [s1 EXCEPT !.pc = "Exec", !.stage = "run"]
    ELSE RunOneFinish(s)

\* Faulty variant of RunOneCallbackRest: the unit is added to the Corpus
\* whether or not the execution updated a feature.
RunOneCallbackRestAlwaysAdds(s, Res, feats, TimeOfUnit) ==
    LET U == s.Data
        s0 == IF s.Options.DifferentialMode
              THEN [s EXCEPT !.OutputDiffVec[s.idx] = Res]
              ELSE s
        FeatureSetTmp == IF s.Options.ReduceInputs THEN feats ELSE {}
        s1 == [s0 EXCEPT !.InputSizesPerFeature =
                   CollectFeatures(1, feats, @, Len(U), s.Options.Shrink)]
        s2 == PrintPulseAndReportSlowInput(s1, U, TimeOfUnit)
        NumNewFeatures == NumFeatureUpdatesBetween(s.InputSizesPerFeature,
                                                   s1.InputSizesPerFeature)
    IN [st |-> AddToCorpus(s2, U, NumNewFeatures, MayDeleteFile(s),
                           FeatureSetTmp),
        ret |-> TRUE]

\* RunOneCallback after its ExecuteCallback returned Res: feats are the
\* features of the execution.  The result is the state and the return value.
RunOneCallbackRest(s, Res, feats, TimeOfUnit) ==
    LET U == s.Data
        s0 == IF s.Options.DifferentialMode
              THEN [s EXCEPT !.OutputDiffVec[s.idx] = Res]
              ELSE s
        FeatureSetTmp == IF s.Options.ReduceInputs THEN feats ELSE {}
        s1 == [s0 EXCEPT !.InputSizesPerFeature =
                   CollectFeatures(1, feats, @, Len(U), s.Options.Shrink)]
        s2 == PrintPulseAndReportSlowInput(s1, U, TimeOfUnit)
        NumNewFeatures == NumFeatureUpdatesBetween(s.InputSizesPerFeature,
                                                   s1.InputSizesPerFeature)
    IN IF NumNewFeatures # 0
       THEN [st |-> AddToCorpus(s2, U, NumNewFeatures, MayDeleteFile(s),
                                FeatureSetTmp),
             ret |-> TRUE]
       ELSE IF s.II # 0 /\ CanReplace(s2, s.II, U, FeatureSetTmp)
       THEN [st |-> TryToReplace(s2, s.II, U), ret |-> TRUE]
       ELSE [st |-> s2, ret |-> FALSE]

\* RunOne(U, ..., ii) called from caller, up to its first ExecuteCallback.
RunOne(s, U, ii, caller) ==
    LET s0 == [s EXCEPT !.Data = U, !.II = ii, !.ctx = caller,
                        !.RunOneCalls = @ + 1]
    IN IF s.Options.DifferentialMode
       THEN RunOneLoop([ResetCoverage(s0) EXCEPT
                          !.features = 0, !.UnitHadOutputDiff = FALSE,
                          !.feature_vec = <<>>,
                          !.CoverageBefore = GetTotalPCCoverage(s0.PCs),
                          !.idx = 0])
       ELSE IF Len(U) = 0
            THEN AfterRunOne(s0, FALSE)
            ELSE [s0 EXCEPT !.pc = "Exec", !.stage = "run", !.idx = 0]

\* Faulty variant of CheckDuplicate: a new hash is not recorded.
CheckDuplicateNoInsert(s, tmp) ==
    IF tmp \in s.hashMap
    THEN [s EXCEPT !.NumberOfDuplicate = @ + 1]
    ELSE s

\* if (hashMap.count(tmp) > 0) { NumberOfDuplicate++; continue; }
\* hashMap[tmp] = true;
CheckDuplicate(s, tmp) ==
    IF tmp \in s.hashMap
    THEN [s EXCEPT !.NumberOfDuplicate = @ + 1]
    ELSE [s EXCEPT !.hashMap = @ \cup {tmp}]

\* One pass of the do-while of MutateAndTestOne, in which MD.Mutate leaves
\* NewU in CurrentUnitData, and what follows the loop when it is left.
MutateStep(s, NewU) ==
    LET NewSize == Len(NewU)
        tmp == Hash(NewU)
        s1 == [s EXCEPT !.PreviousUnit = SubSeq(s.CurrentUnitData, 1, s.Size),
                        !.CurrentUnitData = WriteBuf(@, NewU)]
        s2 == CheckDuplicate(s1, tmp)
    IN IF NewSize > s.Options.MaxLen
       THEN s2
       ELSE IF NewSize = 0
       THEN ExitProcess(s2, AbortExitCode, "assert")
       ELSE RunOne([s2 EXCEPT !.Size = NewSize,
                              !.Inputs[s.II].NumExecutedMutations = @ + 1],
                   NewU, s.II, "mutate")

(***************************************************************************)
(* Actions of the fuzzing thread.                                          *)
(***************************************************************************)
Running == pc \notin {"Done", "Exited"}

\* ShuffleAndMinimize up to ExecuteCallback(&dummy, 0).
ShuffleAndMinimize ==
    /\ pc = "Start"
    /\ Load([Cur EXCEPT !.pc = "Exec", !.stage = "dummy", !.ctx = "replay",
                        !.Data = <<>>])

\* The next unit U of the initial corpus is handed to RunOne.
ReplayNext(U) ==
    /\ pc = "Replay"
    /\ RunOneCalls < MaxRunOneCalls
    /\ Load(RunOne([Cur EXCEPT !.II = 0], U, 0, "replay"))

\* The initial corpus is exhausted.
ReplayEnd ==
    /\ pc = "Replay"
    /\ Load(ShuffleAndMinimizeEnd(Cur))

\* The top of the while loop of Loop: the reload interval has passed or not.
LoopTop(reloadDue) ==
    /\ pc = "Loop"
    /\ Load([Cur EXCEPT !.pc = IF reloadDue THEN "Reload" ELSE "LoopCheck"])

\* RereadOutputCorpus: a unit read from the output corpus (cut to MaxSize)
\* that the Corpus does not hold is handed to RunOne.
ReloadNext(U) ==
    /\ pc = "Reload"
    /\ RunOneCalls < MaxRunOneCalls
    /\ ~HasUnit(Cur, U)
    /\ Load(RunOne(Cur, U, 0, "reload"))

ReloadEnd ==
    /\ pc = "Reload"
    /\ Load([Cur EXCEPT !.pc = "LoopCheck"])

\* The two break tests of Loop.
LoopBreak(TimedOut) ==
    /\ pc = "LoopCheck"
    /\ TotalNumberOfRuns >= MaxNumberOfRuns \/ TimedOut
    /\ Load([Cur EXCEPT !.pc = "Done"])

\* MutateAndTestOne up to its do-while: entry ii is the unit chosen by
\* Corpus.ChooseUnitToMutate.
MutateAndTestOne(ii) ==
    /\ pc = "LoopCheck"
    /\ TotalNumberOfRuns < MaxNumberOfRuns
    /\ ii \in 1..Len(Inputs)
    /\ LET U == Inputs[ii].U
           s1 == [Cur EXCEPT !.II = ii, !.Size = Len(U),
                             !.CurrentUnitData = WriteBuf(@, U),
                             !.PreviousUnit = <<>>, !.MutIter = 0]
       IN Load(IF 0 < MutateDepth
               THEN [s1 EXCEPT !.pc = "MutLoop"]
               ELSE ForNextIteration(s1))

\* One pass of the do-while with the candidate NewU.
Mutate(NewU) ==
    /\ pc = "MutLoop"
    /\ RunOneCalls < MaxRunOneCalls
    /\ Hash(NewU) \in hashMap => NumberOfDuplicate < MaxDuplicates
    /\ Load(MutateStep(Cur, NewU))

ExecuteCallbackBegin ==
    /\ pc = "Exec"
    /\ Executions < MaxExecutions
    /\ Load(ExecuteCallbackEnter(Cur))

\* What a callback may leave in its heap copy of U: U, or U with one byte
\* changed.
HeapCopies(U) ==
    {U} \cup {[U EXCEPT ![p] = 1 - @] : p \in {Len(U)} \ {0}}

\* The callback returns Res; the rest of ExecuteCallback and of its caller
\* up to the next ExecuteCallback.
CallbackReturn(Res, hits, dc, TimeOfUnit, leak) ==
    /\ pc = "CB"
    /\ LET e == ExecuteCallbackLeave(Cur, Res, hits, dc)
       IN IF e.pc = "Exited" THEN Load(e)
          ELSE CASE stage = "dummy" ->
                      Load([EndRun(e) EXCEPT !.pc = "Replay"])
                 [] stage = "leak" ->
                      Load(TryDetectingAMemoryLeakRest(e, leak))
                 [] OTHER ->
                      LET r == RunOneCallbackRest(e, Res, hits, TimeOfUnit)
                      IN IF Options.DifferentialMode
                         THEN Load(RunOneLoop(RecordCallback(r.st, r.ret)))
                         ELSE Load(AfterRunOne(r.st, r.ret))

(***************************************************************************)
(* What may happen while the fuzzing thread runs: allocator hooks, signal  *)
(* handlers, the equivalence check.                                        *)
(***************************************************************************)
\* Sizes of the allocations the target makes.
AllocSizes == {1, DefaultOptions.RssLimitMb * 1048576}

\* Faulty variant of HandleMalloc: the exit code is TimeoutExitCode.
HandleMallocTimeoutCode(s, AllocSize) ==
    IF s.Options.RssLimitMb = 0
       \/ AllocSize \div 1048576 < s.Options.RssLimitMb
    THEN s
    ELSE ExitProcess(DumpCurrentUnit(s, "oom-"),
                     s.Options.TimeoutExitCode, "malloc-limit")

\* HandleMalloc: a single malloc of at least RssLimitMb megabytes.
HandleMalloc(s, AllocSize) ==
    IF s.Options.RssLimitMb = 0
       \/ AllocSize \div 1048576 < s.Options.RssLimitMb
    THEN s
    ELSE ExitProcess(DumpCurrentUnit(s, "oom-"),
                     s.Options.ErrorExitCode, "malloc-limit")

MallocHook(AllocSize) ==
    /\ pc = "CB"
    /\ HooksInstalled
    /\ HookCalls < MaxHookCalls
    /\ Load(HandleMalloc([Cur EXCEPT !.Mallocs = @ + 1, !.HookCalls = @ + 1],
                          AllocSize))

FreeHook ==
    /\ pc = "CB"
    /\ HooksInstalled
    /\ HookCalls < MaxHookCalls
    /\ Load([Cur EXCEPT !.Frees = @ + 1, !.HookCalls = @ + 1])

\* Faulty variant of AlarmCallback: RunningCB is not looked at.
AlarmCallbackAnyTime(InFuzzingThread, Seconds) ==
    /\ Running
    /\ IF ~InFuzzingThread \/ Seconds = 0 \/ Seconds < UnitTimeoutSec
       THEN UNCHANGED vars
       ELSE Load(ExitProcess(DumpCurrentUnit(Cur, "timeout-"),
                             Options.TimeoutExitCode, "timeout"))

\* The alarm is delivered to some thread, Seconds after UnitStartTime.
AlarmCallback(InFuzzingThread, Seconds) ==
    /\ Running
    /\ IF ~InFuzzingThread \/ ~RunningCB \/ Seconds = 0
          \/ Seconds < UnitTimeoutSec
       THEN UNCHANGED vars
       ELSE Load(ExitProcess(DumpCurrentUnit(Cur, "timeout-"),
                             Options.TimeoutExitCode, "timeout"))

CrashCallback ==
    /\ Running
    /\ Load(ExitProcess(DumpCurrentUnit(Cur, "crash-"),
                        Options.ErrorExitCode, "deadly-signal"))

\* The sanitizer's death callback: the unit is dumped and the sanitizer
\* ends the process with its own exit code.
DeathCallback ==
    /\ Running
    /\ Load(ExitProcess(DumpCurrentUnit(Cur, "crash-"), 1, "death"))

InterruptCallback ==
    /\ Running
    /\ Load(ExitProcess(Cur, 0, "interrupt"))

RssLimitCallback ==
    /\ Running
    /\ Load(ExitProcess(DumpCurrentUnit(Cur, "oom-"),
                        Options.ErrorExitCode, "rss-limit"))

StaticFileSizeExceedCallback ==
    /\ Running
    /\ Load(ExitProcess(Cur, 1, "file-size"))

\* LLVMFuzzerAnnounceOutput, called by the target: as the client of the
\* equivalence check it compares its output with the server's.
AnnounceOutput(equal) ==
    /\ pc = "CB"
    /\ IF Options.SMR = "client" /\ ~equal
       THEN Load(ExitProcess(DumpCurrentUnit(Cur, "mismatch-"),
                             Options.ErrorExitCode, "mismatch"))
       ELSE UNCHANGED vars

Next ==
    \/ ShuffleAndMinimize
    \/ \E U \in Units(Options) : ReplayNext(U)
    \/ ReplayEnd
    \/ \E reloadDue \in BOOLEAN : LoopTop(reloadDue)
    \/ \E U \in Units(Options) : ReloadNext(U)
    \/ ReloadEnd
    \/ \E TimedOut \in BOOLEAN : LoopBreak(TimedOut)
    \/ \E ii \in 1..Len(Inputs) : MutateAndTestOne(ii)
    \/ \E NewU \in Candidates(Options) : Mutate(NewU)
    \/ ExecuteCallbackBegin
    \/ \E Res \in ReturnCodes(CB) :
         \E hits \in SUBSET Region(Options.DifferentialMode, CB) :
           \E dc \in HeapCopies(Data) :
             \E TimeOfUnit \in 0..(UnitTimeoutSec - 1) :
               \E leak \in (IF stage = "leak" THEN BOOLEAN ELSE {FALSE}) :
                 CallbackReturn(Res, hits, dc, TimeOfUnit, leak)
    \/ \E AllocSize \in AllocSizes : MallocHook(AllocSize)
    \/ FreeHook
    \/ \E InFuzzingThread \in BOOLEAN :
         \E Seconds \in 0..UnitTimeoutSec :
           AlarmCallback(InFuzzingThread, Seconds)
    \/ CrashCallback
    \/ DeathCallback
    \/ InterruptCallback
    \/ RssLimitCallback
    \/ StaticFileSizeExceedCallback
    \/ \E equal \in BOOLEAN : AnnounceOutput(equal)

Spec == Init /\ [][Next]_vars

(***************************************************************************)
(* Properties.                                                             *)
(***************************************************************************)
\* The diff_ artifacts among the artifact files, in the order written.
DiffArtifacts(arts) == SelectSeq(arts, LAMBDA a : a.Prefix.kind = "diff_")

\* A step in which a differential RunOne reaches its end.
RunOneDone == TotalNumberOfRuns' = TotalNumberOfRuns + 1

\* The return vector is all zero or all non-zero.
Uniform(vec) ==
    \/ \A i \in 0..(NumCallbacks - 1) : vec[i] = 0
    \/ \A i \in 0..(NumCallbacks - 1) : vec[i] # 0

\* C1: a pass of the do-while of MutateAndTestOne that finds the candidate's
\* hash in hashMap (it counts a duplicate) hands nothing to RunOne and stays
\* in the loop to ask for another mutation.
C1_DuplicateCandidateIsSkipped ==
    [][(pc = "MutLoop" /\ NumberOfDuplicate' = NumberOfDuplicate + 1)
          => (RunOneCalls' = RunOneCalls /\ pc' = "MutLoop")]_vars

\* C2, the states: with SaveArtifacts the diff_ artifacts written correspond
\* one to one to pairwise different fingerprints, and while the process runs
\* these are the members of CoverageHash and NumberOfDiffUnitsAdded counts
\* them.
C2_State ==
    Options.SaveArtifacts =>
        /\ Len(DiffArtifacts(Artifacts)) = Len(DiffWrites)
        /\ \A i, j \in 1..Len(DiffWrites) :
              i # j => DiffWrites[i] # DiffWrites[j]
        /\ pc # "Exited" =>
              /\ CoverageHash = {DiffWrites[i] : i \in 1..Len(DiffWrites)}
              /\ Cardinality(CoverageHash) = Len(DiffArtifacts(Artifacts))
              /\ NumberOfDiffUnitsAdded = Len(DiffArtifacts(Artifacts))

\* C2, the steps: a step that writes a diff_ artifact writes exactly one and
\* inserts the fingerprint of the run, absent until then, into CoverageHash.
C2_Step ==
    (Options.SaveArtifacts
       /\ Len(DiffArtifacts(Artifacts')) # Len(DiffArtifacts(Artifacts)))
    => LET fp == DivergenceFingerprint(PCs', OutputDiffVec')
       IN /\ Len(DiffArtifacts(Artifacts')) = Len(DiffArtifacts(Artifacts)) + 1
          /\ fp \notin CoverageHash
          /\ CoverageHash' = CoverageHash \cup {fp}
          /\ DiffWrites' = Append(DiffWrites, fp)

\* C2: with SaveArtifacts on, a diff_ artifact is written only in the step
\* that inserts a fingerprint that was absent into CoverageHash; no two
\* diff_ artifacts share a fingerprint, and the number of fingerprints equals
\* the number of diff_ artifacts and NumberOfDiffUnitsAdded.
C2_DiffArtifactPerFingerprint == [][C2_State' /\ C2_Step]_vars

\* C2 witness: two diff_ artifacts have been written and the process runs.
C2_Witness ==
    /\ Options.SaveArtifacts
    /\ pc # "Exited"
    /\ Len(DiffArtifacts(Artifacts)) = 2
    /\ Cardinality(CoverageHash) = 2

\* The divergence entry a RunOne appends to the Corpus for its input.
DivergenceEntryAdded ==
    /\ Len(Inputs') > Len(Inputs)
    /\ LET e == Inputs'[Len(Inputs')]
       IN /\ e.U = Data
          /\ e.FeatureSet = {}
          /\ e.NumFeatures =
                Cardinality({i \in 1..(GetNumPCs - 1) : PCs'[i] # 0})
                   - CoverageBefore

\* C3: in differential mode, a RunOne with new_diff true whose return vector
\* holds a zero and a non-zero entry and whose fingerprint is not yet in
\* CoverageHash inserts the fingerprint, sets UnitHadOutputDiff, adds exactly
\* one to NumberOfDiffUnitsAdded, writes one artifact diff_<return vector>_
\* (artifacts are written when SaveArtifacts is on) and adds the input to
\* the Corpus with NumFeatures the growth of the total PC coverage over the
\* run and an empty feature set.
C3_NovelDivergenceIsRecorded ==
    [][LET vec == OutputDiffVec'
           fp == DivergenceFingerprint(PCs', vec)
       IN (/\ RunOneDone
           /\ Canonical(Options.Canonical, vec) \notin OutputDiffSeen
           /\ ~Uniform(vec)
           /\ fp \notin CoverageHash)
          => /\ CoverageHash' = CoverageHash \cup {fp}
             /\ UnitHadOutputDiff'
             /\ NumberOfDiffUnitsAdded' = NumberOfDiffUnitsAdded + 1
             /\ Duplicate' = Duplicate
             /\ DivergenceEntryAdded
             /\ IF Options.SaveArtifacts
                THEN /\ Len(DiffArtifacts(Artifacts'))
                           = Len(DiffArtifacts(Artifacts)) + 1
                     /\ \E k \in 1..Len(Artifacts') :
                           /\ Artifacts'[k].Prefix =
                                 ArtifactPrefix("diff_",
                                     [i \in 1..NumCallbacks |-> vec[i - 1]])
                           /\ Artifacts'[k].U = Data
                           /\ \A m \in 1..Len(Artifacts) :
                                 Artifacts[m].Prefix.kind = "diff_"
                                    => m < k
                ELSE DiffArtifacts(Artifacts') = <<>>]_vars

\* C3 witness: a differential run has ended with the return vector (0, 1),
\* its fingerprint recorded, its artifact diff_0_1_ written and its input in
\* the Corpus as a divergence entry.
C3_Witness ==
    /\ Options.DifferentialMode /\ Options.SaveArtifacts
    /\ pc = "Replay" /\ TotalNumberOfRuns = 1
    /\ UnitHadOutputDiff
    /\ NumberOfDiffUnitsAdded = 1
    /\ Cardinality(CoverageHash) = 1
    /\ Len(Inputs) > 0 /\ Inputs[Len(Inputs)].FeatureSet = {}
    /\ \E k \in 1..Len(Artifacts) :
          Artifacts[k].Prefix = ArtifactPrefix("diff_", <<0, 1>>)

\* The run that ends in this step executed its callbacks and yields the
\* return vector and the fingerprint of an earlier run whose diff_ artifact
\* is on disk.
RepeatsRecordedDivergence ==
    /\ RunOneDone /\ pc = "CB"
    /\ Options.SaveArtifacts
    /\ \E k \in 1..Len(DiffWrites) :
          /\ DiffWrites[k] = DivergenceFingerprint(PCs', OutputDiffVec')
          /\ DiffArtifacts(Artifacts)[k].Prefix.tag
                = [i \in 1..NumCallbacks |-> OutputDiffVec'[i - 1]]

\* C4 as claimed: a differential run that yields the return vector and the
\* PC regions of the disagreeing callbacks of an earlier run that produced a
\* diff_ artifact increments Duplicate and writes no new diff_ artifact.
C4_RepeatedDivergenceCountsDuplicate ==
    [][RepeatsRecordedDivergence
          => /\ Duplicate' = Duplicate + 1
             /\ DiffArtifacts(Artifacts') = DiffArtifacts(Artifacts)]_vars

\* C4 as the code has it: such a run writes no new diff_ artifact and leaves
\* Duplicate, CoverageHash and NumberOfDiffUnitsAdded as they were, since
\* new_diff is false for a return vector seen before and DumpUnitIfDiff is
\* not called; Duplicate is incremented, by one, exactly by a run whose return
\* vector is new in canonical form, holds a zero and a non-zero entry, and
\* whose fingerprint is already in CoverageHash.
C4_RepeatedDivergenceIsDropped ==
    [][/\ RepeatsRecordedDivergence
          => /\ Duplicate' = Duplicate
             /\ DiffArtifacts(Artifacts') = DiffArtifacts(Artifacts)
             /\ CoverageHash' = CoverageHash
             /\ NumberOfDiffUnitsAdded' = NumberOfDiffUnitsAdded
             /\ ~UnitHadOutputDiff'
       /\ RunOneDone
          => /\ Duplicate' \in {Duplicate, Duplicate + 1}
             /\ Duplicate' = Duplicate + 1
                <=> /\ Canonical(Options.Canonical, OutputDiffVec')
                          \notin OutputDiffSeen
                    /\ ~Uniform(OutputDiffVec')
                    /\ DivergenceFingerprint(PCs', OutputDiffVec')
                          \in CoverageHash]_vars

\* C4 witness: two differential runs have ended, both with the return vector
\* and the fingerprint of the one diff_ artifact on disk, and Duplicate is
\* still 0.
C4_Witness ==
    /\ Options.DifferentialMode /\ Options.SaveArtifacts
    /\ pc = "MutLoop"
    /\ TotalNumberOfRuns = 2
    /\ Cardinality(OutputDiffSeen) = 1
    /\ Len(DiffWrites) = 1
    /\ DiffWrites[1] = DivergenceFingerprint(PCs, OutputDiffVec)
    /\ DiffArtifacts(Artifacts)[1].Prefix.tag
          = [i \in 1..NumCallbacks |-> OutputDiffVec[i - 1]]
    /\ Duplicate = 0

\* C5: a differential run whose return vector is all zero or all non-zero
\* (the non-zero codes may differ) writes no diff_ artifact, leaves
\* CoverageHash, Duplicate and NumberOfDiffUnitsAdded unchanged and
\* UnitHadOutputDiff false, and adds no Corpus entry on account of the
\* divergence: the Corpus grows in the step only by the entry of a callback
\* that found new features.
C5_UniformVectorIsNoDivergence ==
    [][(RunOneDone /\ Uniform(OutputDiffVec'))
          => /\ DiffArtifacts(Artifacts') = DiffArtifacts(Artifacts)
             /\ CoverageHash' = CoverageHash
             /\ Duplicate' = Duplicate
             /\ NumberOfDiffUnitsAdded' = NumberOfDiffUnitsAdded
             /\ ~UnitHadOutputDiff'
             /\ Len(Inputs') = Len(Inputs)
                   + (IF InputSizesPerFeature' # InputSizesPerFeature
                      THEN 1 ELSE 0)]_vars

\* C5 witness: a differential run has ended with two different non-zero
\* return codes, its vector is recorded as seen, and nothing was retained
\* or written.
C5_Witness ==
    /\ Options.DifferentialMode
    /\ pc = "Replay" /\ TotalNumberOfRuns = 1
    /\ OutputDiffVec[0] # 0 /\ OutputDiffVec[1] # 0
    /\ OutputDiffVec[0] # OutputDiffVec[1]
    /\ OutputDiffSeen # {}
    /\ Inputs = <<>> /\ CoverageHash = {} /\ DiffWrites = <<>>

\* The PC tables and return vectors a differential run can end with.
PCTables ==
    {[i \in 0..(GetNumPCs - 1) |-> IF i \in S THEN PCAddr(i) ELSE 0] :
        S \in SUBSET (0..(GetNumPCs - 1))}

ReturnVectors ==
    {v \in [0..(NumCallbacks - 1) -> 0..NumCallbacks] :
        \A j \in 0..(NumCallbacks - 1) : v[j] \in ReturnCodes(j)}

\* Two runs agree on which callbacks returned non-zero and on the PC regions
\* of exactly those callbacks.
SameDivergence(pcs1, vec1, pcs2, vec2) ==
    \A j \in 0..(NumCallbacks - 1) :
        /\ vec1[j] # 0 <=> vec2[j] # 0
        /\ vec1[j] # 0 => \A i \in ModulePCs(j) : pcs1[i] = pcs2[i]

C7_ExecutedInputIsInHashMap ==
    (pc \in {"Exec", "CB"} /\ stage = "run") => Hash(Data) \in hashMap

\* C7 as the code has it: the input a mutation round submits to RunOne has
\* its hash in hashMap; a RunOne called by the initial-corpus replay or by
\* the reload of the output corpus leaves hashMap as it is.
C7_MutantIsInHashMap ==
    [][/\ (pc' \in {"Exec", "CB"} /\ stage' = "run" /\ ctx' = "mutate")
          => Hash(Data') \in hashMap'
       /\ (pc \in {"Replay", "Reload"} /\ pc' # "Exited")
          => hashMap' = hashMap]_vars

\* C7 witness: a mutation round has submitted a registered input to RunOne
\* while the Corpus holds an executed seed whose hash is not in hashMap.
C7_Witness ==
    /\ pc = "Exec" /\ stage = "run" /\ ctx = "mutate"
    /\ Hash(Data) \in hashMap
    /\ \E i \in 1..Len(Inputs) : Hash(Inputs[i].U) \notin hashMap

\* C8: every Corpus entry has a feature whose recorded smallest size is the
\* size of the entry.
C8_EntryHasFeatureOfItsSize ==
    pc # "Exited" =>
        \A i \in 1..Len(Inputs) :
            \E f \in Features : InputSizesPerFeature[f] = Len(Inputs[i].U)

\* The step appends one artifact of the kind to the artifact files
\* (artifacts are written when SaveArtifacts is on).
Dumps(kind) ==
    IF Options.SaveArtifacts
    THEN /\ Len(Artifacts') = Len(Artifacts) + 1
         /\ SubSeq(Artifacts', 1, Len(Artifacts)) = Artifacts
         /\ Artifacts'[Len(Artifacts')].Prefix.kind = kind
    ELSE Artifacts' = Artifacts

\* C9: ExecuteCallback returns from a callback only with the heap copy equal
\* to the caller's input (inputs here are within the 64 bytes LooseMemeq
\* compares in full); when the comparison fails the process exits with
\* ErrorExitCode after a crash- dump of the input, and neither the output
\* corpus nor the log is touched.
C9_OverwrittenInputDoesNotReturn ==
    [][pc = "CB"
          => /\ pc' \notin {"CB", "Exited"} => DataCopy' = Data
             /\ ExitReason' = "overwrite"
                => /\ pc' = "Exited"
                   /\ ExitCode' = Options.ErrorExitCode
                   /\ Dumps("crash-")
                   /\ Options.SaveArtifacts
                         => Artifacts'[Len(Artifacts')].U = Data
                   /\ OutputCorpusFiles' = OutputCorpusFiles
                   /\ LogFile' = LogFile]_vars

\* C9 witness: the process has exited on an overwritten input, with
\* ErrorExitCode and the crash- artifact of a non-empty input.
C9_Witness ==
    /\ pc = "Exited" /\ ExitReason = "overwrite"
    /\ ExitCode = Options.ErrorExitCode
    /\ Len(Artifacts) > 0
    /\ Artifacts[Len(Artifacts)].Prefix.kind = "crash-"
    /\ Len(Artifacts[Len(Artifacts)].U) > 0

\* C10: each terminating error path exits with its exit code after the dump
\* of its kind: timeout with TimeoutExitCode and timeout-; an oversized
\* malloc and the RSS limit with ErrorExitCode and oom-; a deadly signal and
\* an overwritten input with ErrorExitCode and crash-; a leak with
\* ErrorExitCode and leak-; an equivalence mismatch with ErrorExitCode and
\* mismatch-; an interrupt with 0 and no artifact; an empty corpus after the
\* initial replay with 1.
C10_ExitCodeAndArtifactKind ==
    [][(pc # "Exited" /\ pc' = "Exited")
          => /\ ExitReason' = "timeout"
                => ExitCode' = Options.TimeoutExitCode /\ Dumps("timeout-")
             /\ ExitReason' \in {"malloc-limit", "rss-limit"}
                => ExitCode' = Options.ErrorExitCode /\ Dumps("oom-")
             /\ ExitReason' \in {"deadly-signal", "overwrite"}
                => ExitCode' = Options.ErrorExitCode /\ Dumps("crash-")
             /\ ExitReason' = "leak"
                => ExitCode' = Options.ErrorExitCode /\ Dumps("leak-")
             /\ ExitReason' = "mismatch"
                => ExitCode' = Options.ErrorExitCode /\ Dumps("mismatch-")
             /\ ExitReason' = "interrupt"
                => ExitCode' = 0 /\ Artifacts' = Artifacts
             /\ ExitReason' = "empty-corpus"
                => ExitCode' = 1 /\ pc \in {"Replay", "CB"}]_vars

\* C10 witness: the process has exited on a timeout with TimeoutExitCode,
\* which differs from ErrorExitCode, and its last artifact is a timeout-
\* dump.
C10_Witness ==
    /\ pc = "Exited" /\ ExitReason = "timeout"
    /\ ExitCode = Options.TimeoutExitCode
    /\ ExitCode # Options.ErrorExitCode
    /\ Len(Artifacts) > 0
    /\ Artifacts[Len(Artifacts)].Prefix.kind = "timeout-"

\* C11: in a running process no step decreases any of the counters
\* TotalNumberOfRuns, NumberOfNewUnitsAdded, NumberOfDiffUnitsAdded,
\* NumberOfDuplicate, Duplicate and NumberofValidCases (the counters end
\* with the process).
C11_CountersNeverDecrease ==
    [][pc' # "Exited"
          => /\ TotalNumberOfRuns' >= TotalNumberOfRuns
             /\ NumberOfNewUnitsAdded' >= NumberOfNewUnitsAdded
             /\ NumberOfDiffUnitsAdded' >= NumberOfDiffUnitsAdded
             /\ NumberOfDuplicate' >= NumberOfDuplicate
             /\ Duplicate' >= Duplicate
             /\ NumberofValidCases' >= NumberofValidCases]_vars

\* C11 witness: replay, reload or mutation rounds have raised every one of
\* the counters.
C11_Witness ==
    /\ pc # "Exited"
    /\ TotalNumberOfRuns > 1
    /\ NumberOfNewUnitsAdded > 0
    /\ NumberOfDiffUnitsAdded > 0
    /\ NumberOfDuplicate > 0
    /\ Duplicate > 0
    /\ NumberofValidCases > 0

\* C12: every RunOne call adds exactly one to TotalNumberOfRuns, in either
\* mode: whenever no RunOne is in progress, TotalNumberOfRuns is the number
\* of RunOne calls made so far.
C12_EachRunOneCountsOnce ==
    (pc # "Exited" /\ ~(pc \in {"Exec", "CB"} /\ stage = "run"))
        => TotalNumberOfRuns = RunOneCalls

\* The mutations executed so far: the sum of NumExecutedMutations over the
\* Corpus entries.
RECURSIVE ExecutedMutations(_)
ExecutedMutations(inputs) ==
    IF Len(inputs) = 0 THEN 0
    ELSE inputs[1].NumExecutedMutations + ExecutedMutations(Tail(inputs))

\* C13, as the bound that makes Loop end by MaxNumberOfRuns alone, in either
\* mode: a mutation is asked for only while TotalNumberOfRuns is below
\* MaxNumberOfRuns, and every mutation executed has been counted in
\* TotalNumberOfRuns by the time control is back in Loop, so that Loop
\* breaks after at most MaxNumberOfRuns executed mutations.
C13_LoopEndsByMaxNumberOfRuns ==
    /\ pc = "MutLoop" => TotalNumberOfRuns < MaxNumberOfRuns
    /\ pc \in {"Loop", "LoopCheck", "Done"}
          => ExecutedMutations(Inputs) <= TotalNumberOfRuns

\* The caller of the RunOne that ends in this step.
RunOneCaller ==
    CASE pc = "CB" -> ctx
      [] pc = "Replay" -> "replay"
      [] pc = "Reload" -> "reload"
      [] OTHER -> "mutate"

\* Some callback run of the RunOne that ends in this step retained the
\* input: an earlier one (features > 0), or the one that returns in this
\* step, by new features or by replacing the entry that was mutated.
SomeCallbackRetained ==
    \/ features > 0
    \/ /\ pc = "CB"
       /\ \/ InputSizesPerFeature' # InputSizesPerFeature
          \/ /\ II # 0
             /\ Len(Inputs') = Len(Inputs)
             /\ Inputs'[II].U # Inputs[II].U

\* The return vector the RunOne that ends in this step leaves behind is new
\* in canonical form.
ReturnVectorIsNew ==
    Canonical(Options.Canonical, OutputDiffVec') \notin OutputDiffSeen

\* C14: a differential RunOne called by the replay or by a mutation round
\* is taken as interesting by its caller (which then counts a new unit)
\* exactly when some callback run retained the input or the return vector
\* was new, also when the vector is uniform or its fingerprint is known.
C14_InterestingIffFeaturesOrNewDiff ==
    [][(RunOneDone /\ RunOneCaller \in {"replay", "mutate"})
          => /\ NumberOfNewUnitsAdded'
                   \in {NumberOfNewUnitsAdded, NumberOfNewUnitsAdded + 1}
             /\ NumberOfNewUnitsAdded' = NumberOfNewUnitsAdded + 1
                   <=> (SomeCallbackRetained \/ ReturnVectorIsNew)]_vars

\* C14 witness: two differential runs have ended, each of them counted as a
\* new unit although no feature was ever recorded and only one divergence
\* was added: the second was interesting for its new return vector alone,
\* with a fingerprint already known.
C14_Witness ==
    /\ Options.DifferentialMode
    /\ pc # "Exited"
    /\ TotalNumberOfRuns = 2
    /\ NumberOfNewUnitsAdded = 2
    /\ \A f \in Features : InputSizesPerFeature[f] = 0
    /\ NumberOfDiffUnitsAdded = 1
    /\ Duplicate = 1

LeakOptions ==
    [DefaultOptions EXCEPT !.DifferentialMode = FALSE, !.SMR = "client"]

\* The numbers of fruitless probes LeakSpec starts after.
FruitlessProbes ==
    {0, LeakAttemptsLimit - 1, LeakAttemptsLimit, LeakAttemptsLimit + 1}

\* The variables hold the state s.
IsState(s) ==
    /\ pc = s.pc /\ ctx = s.ctx /\ stage = s.stage
    /\ Options = s.Options
    /\ Inputs = s.Inputs
    /\ InputSizesPerFeature = s.InputSizesPerFeature
    /\ hashMap = s.hashMap /\ CoverageHash = s.CoverageHash
    /\ PCs = s.PCs /\ OutputDiffVec = s.OutputDiffVec
    /\ OutputDiffSeen = s.OutputDiffSeen
    /\ TraceDiffSeen = s.TraceDiffSeen
    /\ TotalNumberOfRuns = s.TotalNumberOfRuns
    /\ NumberOfNewUnitsAdded = s.NumberOfNewUnitsAdded
    /\ NumberOfDiffUnitsAdded = s.NumberOfDiffUnitsAdded
    /\ NumberOfDuplicate = s.NumberOfDuplicate
    /\ Duplicate = s.Duplicate
    /\ NumberofValidCases = s.NumberofValidCases
    /\ NumberOfLeakDetectionAttempts = s.NumberOfLeakDetectionAttempts
    /\ TimeOfLongestUnitInSeconds = s.TimeOfLongestUnitInSeconds
    /\ CB = s.CB /\ UnitHadOutputDiff = s.UnitHadOutputDiff
    /\ RunningCB = s.RunningCB
    /\ CurrentUnitData = s.CurrentUnitData
    /\ CurrentUnitSize = s.CurrentUnitSize
    /\ HasMoreMallocsThanFrees = s.HasMoreMallocsThanFrees
    /\ Mallocs = s.Mallocs /\ Frees = s.Frees
    /\ StopMallocs = s.StopMallocs /\ StopFrees = s.StopFrees
    /\ Result = s.Result /\ StopSeen = s.StopSeen
    /\ Data = s.Data /\ idx = s.idx /\ features = s.features
    /\ feature_vec = s.feature_vec
    /\ CoverageBefore = s.CoverageBefore /\ II = s.II
    /\ Size = s.Size /\ PreviousUnit = s.PreviousUnit
    /\ MutIter = s.MutIter /\ DataCopy = s.DataCopy
    /\ Artifacts = s.Artifacts /\ LogFile = s.LogFile
    /\ OutputCorpusFiles = s.OutputCorpusFiles
    /\ ExitCode = s.ExitCode /\ ExitReason = s.ExitReason
    /\ DiffWrites = s.DiffWrites /\ RunOneCalls = s.RunOneCalls
    /\ HooksInstalled = s.HooksInstalled /\ Executions = s.Executions
    /\ HookCalls = s.HookCalls

LeakInit ==
    \E k \in FruitlessProbes :
        IsState([Fresh(LeakOptions) EXCEPT
                 !.pc = "Replay",
                 !.NumberOfLeakDetectionAttempts = k,
                 !.HasMoreMallocsThanFrees = k > 0])

LeakNext ==
    \/ \E U \in Units(Options) : ReplayNext(U)
    \/ ReplayEnd
    \/ \E reloadDue \in BOOLEAN : LoopTop(reloadDue)
    \/ \E U \in Units(Options) : ReloadNext(U)
    \/ ReloadEnd
    \/ \E TimedOut \in BOOLEAN : LoopBreak(TimedOut)
    \/ \E ii \in 1..Len(Inputs) : MutateAndTestOne(ii)
    \/ \E NewU \in Candidates(Options) : Mutate(NewU)
    \/ ExecuteCallbackBegin
    \/ \E Res \in ReturnCodes(CB) :
         \E hits \in SUBSET Region(Options.DifferentialMode, CB) :
           \E dc \in HeapCopies(Data) :
             \E TimeOfUnit \in 0..(UnitTimeoutSec - 1) :
               \E leak \in (IF stage = "leak" THEN BOOLEAN ELSE {FALSE}) :
                 CallbackReturn(Res, hits, dc, TimeOfUnit, leak)
    \/ \E AllocSize \in AllocSizes : MallocHook(AllocSize)
    \/ FreeHook
    \/ \E InFuzzingThread \in BOOLEAN :
         \E Seconds \in 0..UnitTimeoutSec :
           AlarmCallback(InFuzzingThread, Seconds)
    \/ CrashCallback
    \/ DeathCallback
    \/ InterruptCallback
    \/ RssLimitCallback
    \/ StaticFileSizeExceedCallback
    \/ \E equal \in BOOLEAN : AnnounceOutput(equal)

LeakSpec == LeakInit /\ [][LeakNext]_vars

\* The step runs the recoverable leak check: the probe's re-execution
\* returns, the attempts counter passes its test, and the check finds a
\* leak (the process ends) or none.
LeakCheckInvoked ==
    /\ pc = "CB" /\ stage = "leak"
    /\ \/ ExitReason' = "leak"
       \/ /\ pc' # "Exited"
          /\ NumberOfLeakDetectionAttempts' = NumberOfLeakDetectionAttempts + 1
          /\ Options'.DetectLeaks

\* C16: the probe re-executes a unit only after an execution with more
\* mallocs than frees and with DetectLeaks on; DetectLeaks, once off, stays
\* off; and the leak check runs at most 1000 times, that is, never after
\* 1000 fruitless probes.
C16_LeakCheckAtMostThousandTimes ==
    [][/\ (pc' = "Exec" /\ stage' = "leak")
          => HasMoreMallocsThanFrees' /\ Options'.DetectLeaks
       /\ (~Options.DetectLeaks /\ pc' # "Exited") => ~Options'.DetectLeaks
       /\ LeakCheckInvoked => NumberOfLeakDetectionAttempts < 1000]_vars

\* C17: a pass of the do-while of MutateAndTestOne in which MD.Mutate
\* returns a candidate longer than the mutation-length cap ends the process
\* on a failed assertion; the candidate is not handed to RunOne and the
\* driver does not go on.
C17_OversizedCandidateIsFatal ==
    [][\A NewU \in Candidates(Options) :
          (Len(NewU) > Options.MaxLen /\ Mutate(NewU))
             => /\ pc' = "Exited"
                /\ ExitReason' = "assert"
                /\ ExitCode' = AbortExitCode]_vars

\* C18: when the replay of the initial corpus ends with an empty Corpus the
\* process exits with code 1, and otherwise Loop is entered; so wherever
\* Loop and MutateAndTestOne run, and ChooseUnitToMutate is called, the
\* Corpus holds an entry.
C18_EmptyCorpusExitsBeforeLoop ==
    [][/\ pc \in {"Loop", "Reload", "LoopCheck", "MutLoop"} => Len(Inputs) > 0
       /\ ReplayEnd
             => IF Len(Inputs) = 0
                THEN /\ pc' = "Exited" /\ ExitCode' = 1
                     /\ ExitReason' = "empty-corpus"
                ELSE pc' = "Loop" /\ Inputs' = Inputs
       /\ ExitReason' = "empty-corpus" /\ pc = "CB"
             => /\ ExitCode' = 1
                /\ ctx = "replay" /\ Len(Inputs) = 0
                /\ TotalNumberOfRuns + 1 >= MaxNumberOfRuns
       /\ pc' = "Loop" => Len(Inputs') > 0]_vars

\* C18 witness: the replay ended without a retained input and the process
\* exited with code 1.
C18_Witness ==
    /\ pc = "Exited" /\ ExitReason = "empty-corpus" /\ ExitCode = 1
    /\ Inputs = <<>>

\* C19: a RunOne call inserts its input into the Corpus at most once, however
\* many callbacks found new features: no step appends two entries, the
\* Corpus never holds more entries than RunOne calls were made, and a
\* differential run whose return vector is uniform writes no diff_ artifact.
C19_OneInsertionPerRunOne ==
    [][pc' # "Exited"
          => /\ Len(Inputs') <= Len(Inputs) + 1
             /\ Len(Inputs') <= RunOneCalls'
             /\ (RunOneDone /\ Uniform(OutputDiffVec'))
                   => DiffArtifacts(Artifacts') = DiffArtifacts(Artifacts)]_vars


(***************************************************************************)
(* C20: the bytes DumpUnitIfDiff hashes.                                   *)
(***************************************************************************)
\* The value of the g-th 8-byte word of bytes (g from 1), read with the
\* least significant byte first; -1 stands for every value of 2^31 or more,
\* which no entry of the PC table takes.
LittleEndianWord(bytes, g) ==
    LET b(k) == bytes[8 * (g - 1) + k]
    IN IF b(4) >= 128 \/ \E k \in 5..8 : b(k) # 0
       THEN -1
       ELSE b(1) + 256 * (b(2) + 256 * (b(3) + 256 * b(4)))

\* The PCs of the regions pcs[prefix[i] .. prefix[i+1]) of the callbacks at
\* or after i that returned non-zero, in callback order and then in table
\* order; prefix[i] is the number of table entries before callback i's.
RECURSIVE DisagreeingPCs(_, _, _)
DisagreeingPCs(i, pcs, vec) ==
    IF i = NumCallbacks THEN <<>>
    ELSE LET lo == SumModuleNum(i)
             hi == SumModuleNum(i + 1)
             region == IF vec[i] # 0
                       THEN [k \in 1..(hi - lo) |-> pcs[lo + k - 1]]
                       ELSE <<>>
         IN region \o DisagreeingPCs(i + 1, pcs, vec)

\* bytes is words packed as 8 little-endian bytes each.
PacksLittleEndian(bytes, words) ==
    /\ Len(bytes) = 8 * Len(words)
    /\ \A b \in 1..Len(bytes) : bytes[b] \in 0..255
    /\ \A g \in 1..Len(words) : LittleEndianWord(bytes, g) = words[g]

Entries(inputs) ==
    [i \in 1..Len(inputs) |->
        [U |-> inputs[i].U, NumFeatures |-> inputs[i].NumFeatures,
         MayDeleteFile |-> inputs[i].MayDeleteFile,
         FeatureSet |-> inputs[i].FeatureSet]]

\* A step in which the callback of a plain RunOne returns and RunOne with it.
PlainRunOneReturns ==
    /\ ~Options.DifferentialMode
    /\ pc = "CB" /\ stage = "run"
    /\ RunningCB /\ ~RunningCB'
    /\ pc' # "Exited"

\* C21: in non-differential mode RunOne executes the callback once on a
\* non-empty input (and not at all on an empty one); the input is appended
\* to the Corpus exactly when the execution updated a feature; when it
\* updated none the Corpus changes at most by the seed entry II taking the
\* input as its unit, and without a seed the Corpus is unchanged and the
\* result is false (the replay does not count a new unit).
C21_PlainRunOneRetainsByFeatures ==
    [][/\ (~Options.DifferentialMode /\ RunOneCalls' = RunOneCalls + 1
              /\ pc' # "Exited")
          => \/ pc' = "Exec" /\ stage' = "run" /\ Len(Data') > 0
                   /\ Executions' = Executions
             \/ ~(pc' = "Exec" /\ stage' = "run") /\ Executions' = Executions
                   /\ Entries(Inputs') = Entries(Inputs)
       /\ PlainRunOneReturns
          => LET updated == InputSizesPerFeature' # InputSizesPerFeature
                 n == Len(Inputs)
             IN /\ stage' # "run" /\ RunOneCalls' = RunOneCalls
                /\ Executions' = Executions
                /\ updated <=> Len(Inputs') = n + 1
                /\ updated
                      => /\ SubSeq(Entries(Inputs'), 1, n) = Entries(Inputs)
                         /\ Inputs'[n + 1].U = Data
                /\ ~updated
                      => \/ Entries(Inputs') = Entries(Inputs)
                         \/ /\ II # 0
                            /\ Entries(Inputs')
                                  = [Entries(Inputs) EXCEPT ![II].U = Data]
                /\ (~updated /\ II = 0)
                      => /\ Entries(Inputs') = Entries(Inputs)
                         /\ NumberOfNewUnitsAdded' = NumberOfNewUnitsAdded]_vars

\* C21 witness: the plain replay of two non-empty units has ended; the
\* first execution updated a feature and its unit is the one entry of the
\* Corpus, the second updated none and left the Corpus as it was.
C21_Witness ==
    /\ ~Options.DifferentialMode /\ ~Options.DetectLeaks
    /\ pc = "Replay"
    /\ RunOneCalls = 2 /\ Executions = 3
    /\ Len(Inputs) = 1 /\ NumberOfNewUnitsAdded = 1


(***************************************************************************)
(* C22: the return vector RunOne evaluates.                                *)
(***************************************************************************)
\* A step that holds a whole differential RunOne, from its call to its
\* return: no callback was executed for its input.
RunOneWithoutExecution ==
    /\ Options.DifferentialMode
    /\ RunOneDone
    /\ RunOneCalls' = RunOneCalls + 1

\* C22 as claimed: the vector a differential RunOne evaluates holds the
\* return codes of the callbacks on its own input, never a code left over
\* from an earlier input.  The vector starts as all zero and a non-zero
\* entry is written only with the return code of an execution, so a RunOne
\* that executed no callback evaluates a vector without non-zero entries.
C22_VectorIsOfCurrentInput ==
    [][RunOneWithoutExecution => ~HasNonZero(OutputDiffVec')]_vars


(***************************************************************************)
(* C23: the progress log.  A line is written when TotalNumberOfRuns        *)
(* reaches a multiple of LogInterval, which takes more runs than the       *)
(* bounds of Spec allow.  LogSpec starts late in a differential session:   *)
(* the unit <<0>> was replayed and retained (callback 0 hit its PC, both   *)
(* callbacks returned 0), a mutation round produced the candidate <<0>>    *)
(* twice, the second time counted by NumberOfDuplicate, no run found a     *)
(* divergence, and the output corpus was reloaded until TotalNumberOfRuns  *)
(* is one or two short of LogInterval; the driver is at the top of the     *)
(* while loop of Loop.  RunOneCalls and Executions count from that state.  *)
(***************************************************************************)
LogOptions == [DefaultOptions EXCEPT !.MaxLen = MaxLen, !.SMR = "client"]

\* The values of TotalNumberOfRuns LogSpec starts with.
RunsBeforeLog == {LogInterval - 2, LogInterval - 1}

LogInit ==
    \E k \in RunsBeforeLog :
        IsState([Fresh(LogOptions) EXCEPT
                 !.pc = "Loop",
                 !.TotalNumberOfRuns = k,
                 !.Inputs = <<[U |-> <<0>>, NumFeatures |-> 1,
                               MayDeleteFile |-> FALSE, FeatureSet |-> {},
                               NumExecutedMutations |-> 2,
                               NumSuccessfullMutations |-> 0]>>,
                 !.InputSizesPerFeature =
                     [f \in Features |-> IF f = 1 THEN 1 ELSE 0],
                 !.PCs = [i \in 0..(GetNumPCs - 1) |->
                             IF i = 1 THEN PCAddr(1) ELSE 0],
                 !.OutputDiffSeen = {[i \in 0..(NumCallbacks - 1) |-> 0]},
                 !.TraceDiffSeen = {<<1, 0>>, <<0, 0>>},
                 !.hashMap = {Hash(<<0>>)},
                 !.NumberOfDuplicate = 1,
                 !.NumberOfNewUnitsAdded = 1,
                 !.NumberofValidCases = 2,
                 !.CB = NumCallbacks - 1])

\* No mutation round starts once TotalNumberOfRuns has passed
\* MaxNumberOfRuns: the runs of LogSpec are those of the reload.
LogNext ==
    \/ \E reloadDue \in BOOLEAN : LoopTop(reloadDue)
    \/ \E U \in Units(Options) : ReloadNext(U)
    \/ ReloadEnd
    \/ \E TimedOut \in BOOLEAN : LoopBreak(TimedOut)
    \/ ExecuteCallbackBegin
    \/ \E Res \in ReturnCodes(CB) :
         \E hits \in SUBSET Region(Options.DifferentialMode, CB) :
           \E dc \in HeapCopies(Data) :
             \E TimeOfUnit \in 0..(UnitTimeoutSec - 1) :
               \E leak \in (IF stage = "leak" THEN BOOLEAN ELSE {FALSE}) :
                 CallbackReturn(Res, hits, dc, TimeOfUnit, leak)
    \/ \E AllocSize \in AllocSizes : MallocHook(AllocSize)
    \/ FreeHook
    \/ \E InFuzzingThread \in BOOLEAN :
         \E Seconds \in 0..UnitTimeoutSec :
           AlarmCallback(InFuzzingThread, Seconds)
    \/ CrashCallback
    \/ DeathCallback
    \/ InterruptCallback
    \/ RssLimitCallback
    \/ StaticFileSizeExceedCallback
    \/ \E equal \in BOOLEAN : AnnounceOutput(equal)

LogSpec == LogInit /\ [][LogNext]_vars

\* The line of the progress log for the counters given.
LogLine(runs, duplicates, diffs, valid) == <<runs, duplicates, diffs, valid>>

\* C23 as claimed: in differential mode a line is appended to the progress
\* log exactly when a run makes TotalNumberOfRuns a positive multiple of
\* LogInterval; the line holds TotalNumberOfRuns, the duplicates rejected
\* by the mutation-hash filter plus those rejected by the
\* divergence-fingerprint filter, NumberOfDiffUnitsAdded and
\* NumberofValidCases.
C23_LogLineCountsBothDuplicates ==
    [][(Options.DifferentialMode /\ pc' # "Exited")
          => IF RunOneDone /\ TotalNumberOfRuns' % LogInterval = 0
             THEN LogFile' =
                     Append(LogFile,
                            LogLine(TotalNumberOfRuns',
                                    NumberOfDuplicate' + Duplicate',
                                    NumberOfDiffUnitsAdded',
                                    NumberofValidCases'))
             ELSE LogFile' = LogFile]_vars

\* The same with the value the code logs: Duplicate alone.
LogLineHoldsDuplicate ==
    [][(Options.DifferentialMode /\ pc' # "Exited")
          => IF RunOneDone /\ TotalNumberOfRuns' % LogInterval = 0
             THEN LogFile' =
                     Append(LogFile,
                            LogLine(TotalNumberOfRuns', Duplicate',
                                    NumberOfDiffUnitsAdded',
                                    NumberofValidCases'))
             ELSE LogFile' = LogFile]_vars


(***************************************************************************)
(* C24: MallocFreeTracer::Stop with allocator hooks on other threads.      *)
(* In Spec the rest of ExecuteCallback is one step and the hooks act only  *)
(* while the callback runs.  TracerSpec looks at ExecuteCallback alone and *)
(* takes Stop apart into its atomic operations: the two loads of           *)
(* Mallocs > Frees (in either order, the order of evaluation of the        *)
(* operands being unspecified), the store Mallocs = 0 and the store        *)
(* Frees = 0; a hook on another thread may run between any two of them.    *)
(* What the driver does between two executions does not touch the tracer   *)
(* and is left out: ExecuteCallback is called again on the same unit.      *)
(* TracerSpec starts inside a callback of the replay of <<0>> that has     *)
(* made no allocation, or one.                                             *)
(***************************************************************************)
TracerOptions == [DefaultOptions EXCEPT !.DifferentialMode = FALSE]

\* The allocations the running callback has made when TracerSpec starts.
AllocationsSoFar == {0, 1}

TracerInit ==
    \E k \in AllocationsSoFar :
        IsState([Fresh(TracerOptions) EXCEPT
                 !.pc = "CB", !.ctx = "replay", !.stage = "run",
                 !.Data = <<0>>, !.DataCopy = <<0>>,
                 !.CurrentUnitSize = 1,
                 !.RunningCB = TRUE,
                 !.RunOneCalls = 1, !.Executions = 2,
                 !.Mallocs = k])

\* The callback returns 0 and ExecuteCallback calls AllocTracer.Stop().
StopCall ==
    /\ pc = "CB"
    /\ Load([Cur EXCEPT !.RunningCB = FALSE,
                        !.pc = "Stop",
                        !.StopMallocs = -1, !.StopFrees = -1,
                        !.StopSeen = {Mallocs > Frees}])

\* bool Result = Mallocs > Frees: one of the two atomic loads; the
\* comparison is made once both operands are loaded.
StopLoad(operand) ==
    /\ pc = "Stop"
    /\ IF operand = "Mallocs" THEN StopMallocs = -1 ELSE StopFrees = -1
    /\ LET m == IF operand = "Mallocs" THEN Mallocs ELSE StopMallocs
           f == IF operand = "Frees" THEN Frees ELSE StopFrees
       IN Load([Cur EXCEPT !.StopMallocs = m, !.StopFrees = f,
                           !.Result = IF m # -1 /\ f # -1 THEN m > f ELSE @,
                           !.pc = IF m # -1 /\ f # -1
                                  THEN "StopResetMallocs" ELSE @])

\* Mallocs = 0;
StopResetMallocs ==
    /\ pc = "StopResetMallocs"
    /\ Load([Cur EXCEPT !.Mallocs = 0, !.pc = "StopResetFrees"])

\* Frees = 0; return Result; and the rest of ExecuteCallback:
\* HasMoreMallocsThanFrees = AllocTracer.Stop(), CurrentUnitSize = 0.
StopResetFrees ==
    /\ pc = "StopResetFrees"
    /\ Load([Cur EXCEPT !.Frees = 0,
                        !.HasMoreMallocsThanFrees = Result,
                        !.StopMallocs = -1, !.StopFrees = -1,
                        !.CurrentUnitSize = 0,
                        !.pc = "Exec"])

InStop == pc \in {"Stop", "StopResetMallocs", "StopResetFrees"}

\* StopSeen after a hook left the counters at m and f: up to the
\* comparison, the answer they now give is added.
Seen(s, m, f) == IF s.pc = "Stop" THEN s.StopSeen \cup {m > f} ELSE s.StopSeen

\* MallocHook on another thread while the fuzzing thread is in Stop.
MallocHookDuringStop(AllocSize) ==
    /\ InStop
    /\ HooksInstalled
    /\ HookCalls < MaxHookCalls
    /\ Load(HandleMalloc([Cur EXCEPT !.Mallocs = @ + 1, !.HookCalls = @ + 1,
                                     !.StopSeen = Seen(Cur, Mallocs + 1, Frees)],
                         AllocSize))

\* FreeHook on another thread while the fuzzing thread is in Stop.
FreeHookDuringStop ==
    /\ InStop
    /\ HooksInstalled
    /\ HookCalls < MaxHookCalls
    /\ Load([Cur EXCEPT !.Frees = @ + 1, !.HookCalls = @ + 1,
                        !.StopSeen = Seen(Cur, Mallocs, Frees + 1)])

TracerNext ==
    \/ ExecuteCallbackBegin
    \/ \E AllocSize \in AllocSizes : MallocHook(AllocSize)
    \/ FreeHook
    \/ StopCall
    \/ \E operand \in {"Mallocs", "Frees"} : StopLoad(operand)
    \/ StopResetMallocs
    \/ StopResetFrees
    \/ \E AllocSize \in AllocSizes : MallocHookDuringStop(AllocSize)
    \/ FreeHookDuringStop

TracerSpec == TracerInit /\ [][TracerNext]_vars

\* C24 as claimed: whatever the interleaving of the hooks with Stop, the
\* answer of Stop is whether the malloc-hook invocations since Start
\* outnumber the free-hook invocations, and no count is carried over into
\* the next execution.  Up to the resets of Stop the counters Mallocs and
\* Frees are those numbers, so the answer computed has to be one the
\* counters gave at some instant between the call of Stop and the
\* comparison, the answer returned is the one stored, and the next callback
\* starts with both counters at zero.
C24_StopAnswerUnderConcurrentHooks ==
    [][/\ (pc = "Stop" /\ pc' = "StopResetMallocs") => Result' \in StopSeen'
       /\ (pc = "StopResetFrees" /\ pc' = "Exec")
             => HasMoreMallocsThanFrees' = Result
       /\ (pc = "Exec" /\ pc' = "CB") => Mallocs' = 0 /\ Frees' = 0]_vars


(***************************************************************************)
(* C25: CurrentUnitData and CurrentUnitSize while a callback runs.         *)
(* AllocateCurrentUnitData leaves the MaxInputLen bytes of                 *)
(* new uint8_t[MaxInputLen] uninitialised.  Init takes them to be zero;    *)
(* BufferSpec lets them hold any value a byte of the buffer can hold, so   *)
(* that the buffer equals the input only where the input was copied into   *)
(* it.                                                                     *)
(***************************************************************************)
\* Values of an uninitialised byte: a byte of the inputs, or another one.
BufferBytes == ByteValues \cup {1}

BufferInit ==
    \E opts \in OptionChoices :
        \E buf \in [1..opts.MaxLen -> BufferBytes] :
            IsState([Fresh(opts) EXCEPT !.CurrentUnitData = buf])

BufferSpec == BufferInit /\ [][Next]_vars

\* The artifacts a handler dumps from CurrentUnitData.
DumpedKinds == {"timeout-", "crash-", "oom-", "mismatch-", "leak-"}

\* C25: while RunningCB is true, CurrentUnitSize is the size of the input
\* being executed and the first CurrentUnitSize bytes of CurrentUnitData
\* are that input; an artifact dumped from CurrentUnitData by a step that
\* starts while the callback runs holds exactly that input; and when
\* ExecuteCallback returns, CurrentUnitSize is 0.
C25_CurrentUnitMirrorsRunningInput ==
    /\ [](RunningCB
            => /\ CurrentUnitSize = Len(Data)
               /\ SubSeq(CurrentUnitData, 1, CurrentUnitSize) = Data)
    /\ [][/\ (RunningCB /\ Len(Artifacts') = Len(Artifacts) + 1
                 /\ Artifacts'[Len(Artifacts')].Prefix.kind \in DumpedKinds)
                => Artifacts'[Len(Artifacts')].U = Data
          /\ (RunningCB /\ ~RunningCB') => CurrentUnitSize' = 0]_vars

\* C25 witness: the callback runs on the replayed unit <<0>>, which was
\* copied over the first byte of a buffer that still holds a byte no input
\* has.
C25_Witness ==
    /\ RunningCB /\ stage = "run" /\ ctx = "replay"
    /\ Data = <<0>>
    /\ CurrentUnitSize = 1
    /\ CurrentUnitData = <<0, 1>>

====
